---------------------------- MODULE Spec2Model ----------------------------
(***************************************************************************)
(* Model of the analytics core of news-analyzer-python:                    *)
(*   NewsClusterer.fit_predict            (src/analyzer/cluster.py)        *)
(*   ClusteringQualityMetrics             (src/analyzer/clustering_quality)*)
(*   NarrativeBuilder                     (src/narrative/builder.py)       *)
(*                                                                         *)
(* Real numbers are fixed-point integers in units of 1/SCALE (floor        *)
(* rounding).  The results of the third-party libraries (HDBSCAN labels,   *)
(* scikit-learn metric values) are inputs chosen from small sets.          *)
(***************************************************************************)
EXTENDS Integers, Sequences, FiniteSets, TLC

VARIABLES
    evaluate_quality,      \* NewsClusterer.evaluate_quality (constructor flag)
    last_quality_metrics,  \* NewsClusterer.last_quality_metrics
    call,                  \* which operation has run: "none", "fit_predict", "evaluate_clustering"
    vectors,               \* the vectors argument of the operation
    arg_labels,            \* evaluate_clustering: the labels argument
    arg_n_clusters,        \* evaluate_clustering: the n_clusters argument
    arg_n_noise,           \* evaluate_clustering: the n_noise argument
    np_array,              \* evaluate_clustering: what np.array(vectors) did
    ev_result,             \* evaluate_clustering: None, or Some(how the call ended)
    fp_result,             \* fit_predict: None, or Some(how the call ended)
    scores,                \* _get_quality_grade: the scores it is applied to
    grades,                \* _get_quality_grade: None, or Some(the grades returned)
    nb_call,               \* NarrativeBuilder: "none", "build_narratives", "_build_single_narrative"
    news_items,            \* the news_items argument
    nb_labels,             \* build_narratives: the labels argument
    top_n,                 \* build_narratives: the top_n argument
    processed_texts,       \* the processed_texts argument: None or Some(list)
    nb_indices,            \* _build_single_narrative: the indices argument
    nb_result              \* NarrativeBuilder: None, or Some(how the call ended)

qvars == <<evaluate_quality, last_quality_metrics, call, vectors, arg_labels,
           arg_n_clusters, arg_n_noise, np_array, ev_result, fp_result>>
gvars == <<scores, grades>>
nvars == <<nb_call, news_items, nb_labels, top_n, processed_texts, nb_indices, nb_result>>

VARIABLES
    pp_pc,                 \* preprocess_texts_async: "idle", "collecting", "returned"
    pp_items,              \* its news_items argument
    pp_queue,              \* the submitted tasks no worker thread has taken yet, oldest first
    pp_running,            \* the tasks the worker threads run
    pp_completed,          \* the finished tasks the loop has not yet received, first finished first
    pp_processed,          \* the local list processed_texts
    pp_result              \* None, or Some(the list returned)

pvars == <<pp_pc, pp_items, pp_queue, pp_running, pp_completed, pp_processed, pp_result>>

VARIABLES
    batch_call,            \* "none", "process_news_batch_async" or "main"
    batch_stages,          \* the stages the call started, in order
    batch_items,           \* the news items of the batch
    batch_vectors,         \* None, Some(number of vectors), or Raise of the vectorizer
    batch_cluster,         \* None, or Some(how fit_predict ended)
    batch_narratives,      \* None, or Some(how build_narratives ended)
    batch_result           \* None, or Some(how the batch ended)

bvars == <<batch_call, batch_stages, batch_items, batch_vectors, batch_cluster, batch_narratives, batch_result>>

VARIABLES
    nc_call,               \* "none", "fit_predict" or "optimize_parameters" on a configured clusterer
    nc_self,               \* the clusterer's parameters
    nc_vectors,            \* the vectors argument
    hdbscan_called,        \* fit_predict reached HDBSCAN
    hdbscan_answer,        \* what HDBSCAN answered: Some(labels) or Raise
    nc_result,             \* None, or Some(how fit_predict ended)
    parameter_ranges,      \* optimize_parameters: the parameter_ranges argument
    opt_runs,              \* optimize_parameters: what happened for every combination, in order
    opt_result             \* None, or Some(how optimize_parameters ended)

cvars == <<nc_call, nc_self, nc_vectors, hdbscan_called, hdbscan_answer, nc_result,
           parameter_ranges, opt_runs, opt_result>>

VARIABLES
    st_call,                \* "none" or "_assess_cluster_stability"
    st_labels,              \* its labels argument
    st_n_clusters,          \* its n_clusters argument
    st_result              \* None or Some(the metrics it returned)
svars == <<st_call, st_labels, st_n_clusters, st_result>>

VARIABLES
    os_metrics,             \* the metrics given to _calculate_overall_quality_score, without davies_bouldin_score
    os_davies,              \* the davies_bouldin_score of the first and of the second map: None when absent
    os_result              \* None, or Some of the scores and the grades of the two maps
ovars == <<os_metrics, os_davies, os_result>>

VARIABLES
    nz_call,                \* "none" or "fit_predict" on the vectors and on the scaled vectors
    nz_rows,                \* the vectors: each row a direction and a binary exponent
    nz_shift,               \* for each row the exponent k of its positive constant 2^k
    nz_normalized,          \* X_normalized of the vectors and of the scaled vectors
    nz_labels              \* the labels HDBSCAN gave for the two, each Some(labels) or Raise
zvars == <<nz_call, nz_rows, nz_shift, nz_normalized, nz_labels>>

VARIABLES
    rc_client,              \* Some("unconstructed"), Some("Redis"), None, or Some("raised") when __init__ raised
    rc_ping,                \* the outcome of the ping made by __init__
    rc_store,               \* the Redis server: key -> stored data
    rc_sets,                \* every (texts, vectors) set_vectorized_texts was called with
    rc_call,                \* the last cache call: its name, its texts and what it returned
    rc_calls               \* the number of cache calls made
rvars == <<rc_client, rc_ping, rc_store, rc_sets, rc_call, rc_calls>>

VARIABLES
    main_pc,                \* the statement of main that runs next, "exited" after it
    main_pending,           \* how the try block is left: "none", "end", "return", "SystemExit", "Exception" or "KeyboardInterrupt"
    main_exit,              \* how main ended: "none", "end", "return", or the exception that left it
    main_news_count,        \* the number of news db.get_news_count_last_hours gave
    db_conn,                \* Database._conn is set
    db_connected,           \* db.connect() has succeeded
    db_disconnects         \* the number of calls of db.disconnect()
mvars == <<main_pc, main_pending, main_exit, main_news_count, db_conn, db_connected, db_disconnects>>

xvars == <<pvars, bvars, cvars, svars, ovars, zvars, rvars, mvars>>
vars == <<qvars, gvars, nvars, xvars>>

-----------------------------------------------------------------------------
(* Bounds of the model *)

\* largest number of input vectors; external metrics need more than ExternalMinSamples
MaxN == 11
\* largest cluster id the clustering library hands out
MaxLabel == 2
\* up to this many points every label vector is generated; above it only
\* label vectors grouped by label (the evaluation reads labels through Counter)
MaxFree == 3

(* Program constants *)

\* fixed-point unit: 1.0 is SCALE
SCALE == 10 * 10 * 10
\* len(X) > 10 in evaluate_clustering
ExternalMinSamples == 10
\* weights of _calculate_overall_quality_score, in hundredths
W_silhouette == 25
W_calinski == 15
W_coverage == 20
W_balance == 15
W_stability == 15
W_efficiency == 10
\* grade cut-offs of _get_quality_grade, in units of 1/SCALE
GradeExcellent == 800
GradeGood == 700
GradeFair == 600
GradePoor == 400

\* an optional value: None, or Some(x)
None == <<>>
Some(x) == <<x>>

-----------------------------------------------------------------------------
(* Arithmetic helpers *)

Min2(a, b) == IF a <= b THEN a ELSE b
Max2(a, b) == IF a >= b THEN a ELSE b

RECURSIVE SumSet(_, _)
\* sum of f[x] over the finite set S
SumSet(f, S) ==
    IF S = {} THEN 0
    ELSE LET x == CHOOSE y \in S : TRUE IN f[x] + SumSet(f, S \ {x})

RECURSIVE SqrtSearch(_, _, _)
\* largest r in lo..hi with r*r <= x  (lo*lo <= x is given)
SqrtSearch(x, lo, hi) ==
    IF lo >= hi THEN lo
    ELSE LET mid == (lo + hi + 1) \div 2
         IN IF mid * mid <= x THEN SqrtSearch(x, mid, hi)
            ELSE SqrtSearch(x, lo, mid - 1)

\* floor of the square root (x < 2^31)
ISqrt(x) == SqrtSearch(x, 0, 46340)

\* math.log(k) in units of 1/SCALE, k = 1..20
LnTable == <<0, 693, 1099, 1386, 1609, 1792, 1946, 2079, 2197, 2303,
             2398, 2485, 2565, 2639, 2708, 2773, 2833, 2890, 2944, 2996>>
math_log(k) == LnTable[k]

-----------------------------------------------------------------------------
(* collections.Counter over the labels *)

LabelSet(labels) == {labels[i] : i \in DOMAIN labels}
CountOf(labels, l) == Cardinality({i \in DOMAIN labels : labels[i] = l})

\* Counter(labels) with the noise label -1 deleted: label -> size
ClusterSizes(labels) ==
    [l \in LabelSet(labels) \ {-1} |-> CountOf(labels, l)]

SumSizes(sizes) == SumSet(sizes, DOMAIN sizes)
MaxSize(sizes) == CHOOSE m \in {sizes[l] : l \in DOMAIN sizes} :
                      \A l \in DOMAIN sizes : sizes[l] <= m
MinSize(sizes) == CHOOSE m \in {sizes[l] : l \in DOMAIN sizes} :
                      \A l \in DOMAIN sizes : sizes[l] >= m

\* np.std(sizes) is nan for an empty list
StdIsNaN(sizes) == DOMAIN sizes = {}

\* np.std(sizes) in units of 1/SCALE, for a non-empty list
np_std(sizes) ==
    LET n  == Cardinality(DOMAIN sizes)
        s1 == SumSizes(sizes)
        s2 == SumSet([l \in DOMAIN sizes |-> sizes[l] * sizes[l]], DOMAIN sizes)
    IN ISqrt((n * s2 - s1 * s1) * SCALE * SCALE) \div n


-----------------------------------------------------------------------------
(* Python dictionaries: functions from key strings to values *)

EmptyDict == [k \in {} |-> 0]
\* d.update(x): the keys of x override those of d
update(d, x) == x @@ d
Has(d, k) == k \in DOMAIN d

-----------------------------------------------------------------------------
(* ClusteringQualityMetrics *)

\* _calculate_cluster_stats
_calculate_cluster_stats(labels) ==
    LET sizes == ClusterSizes(labels)
        n     == Cardinality(DOMAIN sizes)
        total == SumSizes(sizes)
        s2    == SumSet([l \in DOMAIN sizes |-> sizes[l] * sizes[l]], DOMAIN sizes)
    IN IF n = 0
       THEN [avg_cluster_size |-> 0, max_cluster_size |-> 0, min_cluster_size |-> 0,
             cluster_size_std |-> 0, cluster_size_variance |-> 0,
             dominant_cluster_ratio |-> 0, size_distribution |-> EmptyDict]
       ELSE [avg_cluster_size |-> (total * SCALE) \div n,
             max_cluster_size |-> MaxSize(sizes),
             min_cluster_size |-> MinSize(sizes),
             cluster_size_std |-> np_std(sizes),
             cluster_size_variance |-> ((n * s2 - total * total) * SCALE) \div (n * n),
             dominant_cluster_ratio |->
                 IF total > 0 THEN (MaxSize(sizes) * SCALE) \div total ELSE 0,
             size_distribution |-> sizes]

\* what one scikit-learn metric call can do: Some(value), or Raise
Raise == None
SilhouetteValues == {Some(-SCALE), Some(SCALE)}
CalinskiValues   == {Some(0), Some(2000 * SCALE)}
DaviesValues     == {Some(3 * SCALE)}

\* the outcomes of the three metric calls on n_samples points with n_labels
\* distinct labels: scikit-learn raises unless 2 <= n_labels <= n_samples - 1,
\* and may raise on any input (NaN rows, an object array)
ExternalOutcomes(n_samples, n_labels, wellformed) ==
    IF wellformed /\ 2 <= n_labels /\ n_labels <= n_samples - 1
    THEN [silhouette : SilhouetteValues \cup {Raise},
          calinski   : CalinskiValues \cup {Raise},
          davies     : DaviesValues \cup {Raise}]
    ELSE {[silhouette |-> Raise, calinski |-> Raise, davies |-> Raise]}

\* _calculate_external_metrics; x_len = len(X), lib = the library's outcomes.
\* Returns Some(dictionary), or Raise when X[valid_indices] is out of range.
_calculate_external_metrics(x_len, labels, n_clusters, lib) ==
    LET valid_indices == {i \in DOMAIN labels : labels[i] # -1}
        n_labels == Cardinality({labels[i] : i \in valid_indices})
        one(key, v) == IF n_labels > 1 /\ v # Raise THEN (key :> v[1]) ELSE EmptyDict
    IN IF Cardinality(valid_indices) < 2 THEN Some(EmptyDict)
       ELSE IF \E i \in valid_indices : i > x_len THEN Raise
       ELSE Some(one("silhouette_score", lib.silhouette)
                 @@ one("calinski_harabasz_score", lib.calinski)
                 @@ one("davies_bouldin_score", lib.davies))

\* the balance score of _calculate_internal_metrics
balance_score(labels, n_clusters, n_noise) ==
    LET total_samples == Len(labels)
        clustered == total_samples - n_noise
        sizes == ClusterSizes(labels)
    IN IF n_clusters > 0
       THEN IF clustered > 0        \* expected_size > 0
            THEN IF StdIsNaN(sizes)
                 THEN SCALE          \* max(0, min(1, nan)) is 1
                 ELSE Max2(0, Min2(SCALE,
                          SCALE - (np_std(sizes) * n_clusters) \div clustered))
            ELSE 0
       ELSE 0

\* _calculate_internal_metrics
_calculate_internal_metrics(labels, n_clusters, n_noise) ==
    LET total_samples == Len(labels)
        balance == balance_score(labels, n_clusters, n_noise)
        coverage == IF total_samples > 0
                    THEN ((total_samples - n_noise) * SCALE) \div total_samples
                    ELSE 0
        compactness ==
            IF total_samples > 0
            THEN Min2(SCALE, Max2(SCALE \div 10,
                     SCALE - (n_clusters * SCALE * SCALE) \div math_log(total_samples + 1)))
            ELSE 0
    IN [balance_score |-> balance,
        coverage_score |-> coverage,
        compactness_score |-> compactness,
        efficiency_score |-> (balance + coverage + compactness) \div 3]

\* a classification that looks at small before large
SizeClass_small_first(size, total_clustered) ==
    IF size = 1 THEN "single_point_clusters"
    ELSE IF size < 5 THEN "small_clusters"
    ELSE IF 10 * size > 3 * total_clustered THEN "large_clusters"
    ELSE "medium_clusters"

\* the class of one cluster in _assess_cluster_stability
SizeClass(size, total_clustered) ==
    IF size = 1 THEN "single_point_clusters"
    ELSE IF 10 * size > 3 * total_clustered THEN "large_clusters"
    ELSE IF size < 5 THEN "small_clusters"
    ELSE "medium_clusters"

\* _assess_cluster_stability
_assess_cluster_stability(labels, n_clusters) ==
    LET sizes == ClusterSizes(labels)
        total_clustered == SumSizes(sizes)
        count(c) == Cardinality({l \in DOMAIN sizes :
                                   SizeClass(sizes[l], total_clustered) = c})
        unstable == count("single_point_clusters") + count("large_clusters")
    IN [single_point_clusters |-> count("single_point_clusters"),
        large_clusters |-> count("large_clusters"),
        small_clusters |-> count("small_clusters"),
        medium_clusters |-> count("medium_clusters"),
        stability_score |->
            IF n_clusters > 0
            THEN Max2(0, SCALE - (unstable * SCALE) \div n_clusters)
            ELSE 0]

\* weights that count davies_bouldin_score too
weights_with_davies ==
    [silhouette_score |-> W_silhouette,
     calinski_harabasz_score |-> W_calinski,
     davies_bouldin_score |-> W_calinski,
     coverage_score |-> W_coverage,
     balance_score |-> W_balance,
     stability_score |-> W_stability,
     efficiency_score |-> W_efficiency]

\* the weights dictionary of _calculate_overall_quality_score
weights ==
    [silhouette_score |-> W_silhouette,
     calinski_harabasz_score |-> W_calinski,
     coverage_score |-> W_coverage,
     balance_score |-> W_balance,
     stability_score |-> W_stability,
     efficiency_score |-> W_efficiency]

\* the normalisation branch of _calculate_overall_quality_score
normalized(metric, value) ==
    IF metric = "silhouette_score" THEN (value + SCALE) \div 2
    ELSE IF metric = "davies_bouldin_score" THEN Max2(0, SCALE - value \div 2)
    ELSE IF metric = "calinski_harabasz_score" THEN Min2(SCALE, value \div 1000)
    ELSE value

\* the metrics of the weights dictionary that the report carries
PresentWeighted(metrics) == DOMAIN weights \cap DOMAIN metrics

\* _calculate_overall_quality_score dividing by the sum of all the weights:
\* an absent metric counts as zero
_calculate_overall_quality_score_all_weights(metrics) ==
    LET present == PresentWeighted(metrics)
        score == SumSet([m \in present |-> normalized(m, metrics[m]) * weights[m]], present)
    IN score \div SumSet(weights, DOMAIN weights)

\* _calculate_overall_quality_score
_calculate_overall_quality_score(metrics) ==
    LET present == PresentWeighted(metrics)
        score == SumSet([m \in present |-> normalized(m, metrics[m]) * weights[m]], present)
        total_weight == SumSet(weights, present)
    IN IF total_weight > 0 THEN score \div total_weight ELSE 0

\* _get_quality_grade with exclusive cut-offs (> in place of >=)
_get_quality_grade_exclusive(score) ==
    IF score > GradeExcellent THEN "EXCELLENT"
    ELSE IF score > GradeGood THEN "GOOD"
    ELSE IF score > GradeFair THEN "FAIR"
    ELSE IF score > GradePoor THEN "POOR"
    ELSE "BAD"

\* _get_quality_grade
_get_quality_grade(score) ==
    IF score >= GradeExcellent THEN "EXCELLENT"
    ELSE IF score >= GradeGood THEN "GOOD"
    ELSE IF score >= GradeFair THEN "FAIR"
    ELSE IF score >= GradePoor THEN "POOR"
    ELSE "BAD"


\* how a call ends: it returns a value, or an exception leaves it
Return(x) == [raised |-> FALSE, value |-> x]
Raised == [raised |-> TRUE]

\* the dictionary of the except branch of evaluate_clustering
ErrorReport(n_clusters, n_noise) ==
    [error |-> "exception", n_clusters |-> n_clusters, n_noise |-> n_noise,
     quality_score |-> 0, quality_grade |-> "ERROR"]

\* np.array(vectors) of evaluate_clustering: a ragged list raises ValueError
\* (numpy >= 1.24) or becomes an object array (older numpy)
NpArrayOutcomes(v) == IF v.ragged THEN {"ValueError", "object"} ELSE {"ok"}

\* a gate that lets the external metrics run on few vectors too
external_gate_any_size(x_len, n_clusters, n_noise) ==
    n_clusters > 1 /\ n_clusters < x_len - n_noise

\* if len(X) > 10 and n_clusters > 1 and n_clusters < len(X) - n_noise
external_gate(x_len, n_clusters, n_noise) ==
    x_len > ExternalMinSamples /\ n_clusters > 1 /\ n_clusters < x_len - n_noise

\* stands for an int too large to convert to float, such as 10**400
IntBeyondFloat == 1000000

\* n_clusters / math.log(total_samples + 1) raises OverflowError when n_clusters
\* has no float; the division is reached when there are labels
internal_metrics_raise(labels, n_clusters) ==
    Len(labels) > 0 /\ n_clusters >= IntBeyondFloat

\* the try block of evaluate_clustering: Some(metrics), or Raise when an
\* exception leaves the block
evaluate_try(v, labels, n_clusters, n_noise, lib) ==
    IF lib.array = "ValueError" THEN Raise
    \* an exception of _calculate_internal_metrics leaves the block
    ELSE IF internal_metrics_raise(labels, n_clusters) THEN Raise
    ELSE
    LET n == Len(labels)
        base == [n_clusters |-> n_clusters,
                 n_noise |-> n_noise,
                 noise_ratio |-> IF n > 0 THEN (n_noise * SCALE) \div n ELSE 0,
                 total_samples |-> n,
                 clustered_samples |-> n - n_noise,
                 clustering_ratio |-> IF n > 0 THEN ((n - n_noise) * SCALE) \div n ELSE 0]
        m1 == update(base, _calculate_cluster_stats(labels))
        ext == IF external_gate(v.n, n_clusters, n_noise)
               THEN _calculate_external_metrics(v.n, labels, n_clusters, lib.external)
               ELSE Some(EmptyDict)
        \* an exception of _calculate_external_metrics is logged and dropped
        m2 == IF ext = Raise THEN m1 ELSE update(m1, ext[1])
        m3 == update(m2, _calculate_internal_metrics(labels, n_clusters, n_noise))
        m4 == update(m3, _assess_cluster_stability(labels, n_clusters))
        quality_score == _calculate_overall_quality_score(m4)
    IN Some(update(m4, [overall_quality_score |-> quality_score,
                        quality_grade |-> _get_quality_grade(quality_score)]))

\* an except branch that lets the exception through
evaluate_except_reraise(n_clusters, n_noise) == Raised

\* the except branch of evaluate_clustering: every exception becomes the error report
evaluate_except(n_clusters, n_noise) == Return(ErrorReport(n_clusters, n_noise))

\* evaluate_clustering
evaluate_clustering(v, labels, n_clusters, n_noise, lib) ==
    LET r == evaluate_try(v, labels, n_clusters, n_noise, lib)
    IN IF r = Raise THEN evaluate_except(n_clusters, n_noise) ELSE Return(r[1])

-----------------------------------------------------------------------------
(* NewsClusterer *)

Labels == -1 .. MaxLabel

Rep(l, k) == [i \in 1..k |-> l]

RECURSIVE Grouped(_, _)
\* the label vectors of length n over l..MaxLabel that are grouped by label
Grouped(n, l) ==
    IF n = 0 THEN {<<>>}
    ELSE IF l > MaxLabel THEN {}
    ELSE UNION {{Rep(l, k) \o t : t \in Grouped(n - k, l + 1)} : k \in 0..n}

\* what HDBSCAN.fit_predict can return for n points: one label per point,
\* -1 for noise or a cluster id
LabelVectors(n) == IF n <= MaxFree THEN [1..n -> Labels] ELSE Grouped(n, -1)

\* the statistics of fit_predict over the library's labels
unique_labels_of(labels) == LabelSet(labels)
\* the cluster count without the correction for the noise label
n_clusters_of_with_noise(labels) == Cardinality(LabelSet(labels))

n_clusters_of(labels) ==
    Cardinality(unique_labels_of(labels)) - (IF -1 \in unique_labels_of(labels) THEN 1 ELSE 0)
n_noise_of(labels) == CountOf(labels, -1)

\* fit_predict: how the call ends, the evaluation it made and last_quality_metrics.
\* hdb is the library's answer (Some(labels) or Raise), lib the metric
\* library's outcomes, lqm the previous last_quality_metrics.
\* a fit_predict that gives up the clusters when the evaluation reports noise
fit_predict_drops_noisy(v, evalq, lqm, hdb, lib) ==
    IF v.ragged \/ v.n = 0 \/ hdb = Raise
    THEN [result |-> Raised, ev |-> None, lqm |-> lqm]
    ELSE
    LET labels == hdb[1]
        ev == IF evalq
              THEN Some(evaluate_clustering(v, labels, n_clusters_of(labels),
                                            n_noise_of(labels), lib))
              ELSE None
        kept == IF ev # None /\ ev[1].value.n_noise > 0
                THEN [i \in DOMAIN labels |-> -1] ELSE labels
    IN [result |-> Return([labels |-> kept, n_clusters |-> n_clusters_of(kept),
                           n_noise |-> n_noise_of(kept),
                           unique_labels |-> unique_labels_of(kept)]),
        ev |-> ev,
        lqm |-> IF ev # None THEN Some(ev[1].value) ELSE lqm]

fit_predict(v, evalq, lqm, hdb, lib) ==
    IF v.ragged \/ v.n = 0 \/ hdb = Raise
    THEN [result |-> Raised, ev |-> None, lqm |-> lqm]
    ELSE
    LET labels == hdb[1]
        n_clusters == n_clusters_of(labels)
        n_noise == n_noise_of(labels)
        ev == IF evalq
              THEN Some(evaluate_clustering(v, labels, n_clusters, n_noise, lib))
              ELSE None
    IN [result |-> Return([labels |-> labels, n_clusters |-> n_clusters,
                           n_noise |-> n_noise,
                           unique_labels |-> unique_labels_of(labels)]),
        ev |-> ev,
        \* an exception of the evaluation is logged; the attribute keeps its value
        lqm |-> IF ev # None /\ ~ev[1].raised THEN Some(ev[1].value) ELSE lqm]

-----------------------------------------------------------------------------
(* The clusterer and the evaluator as a state machine *)

VectorInputs == [n : 0..MaxN, ragged : BOOLEAN]

LibOutcomes(v, labels) ==
    [array : NpArrayOutcomes(v),
     external : ExternalOutcomes(
                    Cardinality({i \in DOMAIN labels : labels[i] # -1}),
                    Cardinality(LabelSet(labels) \ {-1}),
                    ~v.ragged /\ Len(labels) <= v.n)]

\* the outcomes of the library calls fit_predict makes for these labels: when
\* the external metrics are not computed, scikit-learn is not called
LibOutcomesOfCalls(v, labels) ==
    IF external_gate(v.n, n_clusters_of(labels), n_noise_of(labels))
    THEN LibOutcomes(v, labels)
    ELSE [array : NpArrayOutcomes(v),
          external : {[silhouette |-> Raise, calinski |-> Raise, davies |-> Raise]}]

QualityIdle ==
    /\ last_quality_metrics = None
    /\ call = "none"
    /\ vectors = [n |-> 0, ragged |-> FALSE]
    /\ arg_labels = <<>>
    /\ arg_n_clusters = 0
    /\ arg_n_noise = 0
    /\ np_array = "ok"
    /\ ev_result = None
    /\ fp_result = None

GradeIdle ==
    /\ scores = <<0, 0>>
    /\ grades = None

NarrativeIdle ==
    /\ nb_call = "none"
    /\ news_items = <<>>
    /\ nb_labels = <<>>
    /\ top_n = 0
    /\ processed_texts = None
    /\ nb_indices = <<>>
    /\ nb_result = None

PreprocessIdle ==
    /\ pp_pc = "idle"
    /\ pp_items = <<>>
    /\ pp_queue = <<>>
    /\ pp_running = {}
    /\ pp_completed = <<>>
    /\ pp_processed = <<>>
    /\ pp_result = None

BatchIdle ==
    /\ batch_call = "none"
    /\ batch_stages = <<>>
    /\ batch_items = <<>>
    /\ batch_vectors = None
    /\ batch_cluster = None
    /\ batch_narratives = None
    /\ batch_result = None

\* NewsClusterer.__init__: min_samples defaults to max(1, min_cluster_size // 2)
NewsClusterer(min_cluster_size, min_samples, metric) ==
    [min_cluster_size |-> min_cluster_size,
     min_samples |-> IF min_samples # None THEN min_samples[1]
                     ELSE Max2(1, min_cluster_size \div 2),
     metric |-> metric,
     cluster_selection_method |-> "eom",
     cluster_selection_epsilon |-> 0]

\* the default of min_cluster_size
DefaultMinClusterSize == 5

ClustererIdle ==
    /\ nc_call = "none"
    /\ nc_self = NewsClusterer(DefaultMinClusterSize, None, "cosine")
    /\ nc_vectors = [n |-> 0, ragged |-> FALSE]
    /\ hdbscan_called = FALSE
    /\ hdbscan_answer = Raise
    /\ nc_result = None
    /\ parameter_ranges = <<>>
    /\ opt_runs = <<>>
    /\ opt_result = None

StabilityIdle ==
    /\ st_call = "none"
    /\ st_labels = <<>>
    /\ st_n_clusters = 0
    /\ st_result = None

ScoreIdle ==
    /\ os_metrics = EmptyDict
    /\ os_davies = <<None, None>>
    /\ os_result = None

NormalizeIdle ==
    /\ nz_call = "none"
    /\ nz_rows = <<>>
    /\ nz_shift = <<>>
    /\ nz_normalized = <<>>
    /\ nz_labels = <<>>

RedisIdle ==
    /\ rc_client = Some("unconstructed")
    /\ rc_ping = "none"
    /\ rc_store = {}
    /\ rc_sets = {}
    /\ rc_call = <<>>
    /\ rc_calls = 0

MainIdle ==
    /\ main_pc = "idle"
    /\ main_pending = "none"
    /\ main_exit = "none"
    /\ main_news_count = 0
    /\ db_conn = FALSE
    /\ db_connected = FALSE
    /\ db_disconnects = 0

ExtraIdle ==
    /\ PreprocessIdle
    /\ BatchIdle
    /\ ClustererIdle
    /\ StabilityIdle
    /\ ScoreIdle
    /\ NormalizeIdle
    /\ RedisIdle
    /\ MainIdle

InitQuality ==
    /\ evaluate_quality \in BOOLEAN
    /\ QualityIdle
    /\ GradeIdle
    /\ NarrativeIdle
    /\ ExtraIdle

\* NewsClusterer.fit_predict(vectors)
FitPredict ==
    /\ call = "none"
    /\ \E v \in VectorInputs :
       \E hdb \in {Raise} \cup {Some(l) : l \in LabelVectors(v.n)} :
       \E lib \in LibOutcomes(v, IF hdb = Raise THEN <<>> ELSE hdb[1]) :
       \E r \in {fit_predict(v, evaluate_quality, last_quality_metrics, hdb, lib)} :
             /\ call' = "fit_predict"
             /\ vectors' = v
             /\ np_array' = IF r.ev # None THEN lib.array ELSE np_array
             /\ fp_result' = Some(r.result)
             /\ ev_result' = r.ev
             /\ last_quality_metrics' = r.lqm
             /\ IF r.ev # None
                THEN /\ arg_labels' = r.result.value.labels
                     /\ arg_n_clusters' = r.result.value.n_clusters
                     /\ arg_n_noise' = r.result.value.n_noise
                ELSE UNCHANGED <<arg_labels, arg_n_clusters, arg_n_noise>>
    /\ UNCHANGED <<evaluate_quality, gvars, nvars, xvars>>

\* the n_clusters and n_noise a caller may pass with labels: the true counts, or others
ArgClusters(labels) == {n_clusters_of(labels), 0, n_clusters_of(labels) + 1, IntBeyondFloat}
ArgNoise(labels) == {n_noise_of(labels), 0, Len(labels) + 1}

\* ClusteringQualityMetrics.evaluate_clustering(vectors, labels, n_clusters, n_noise)
EvaluateClustering ==
    /\ call = "none"
    /\ \E n \in 0..MaxFree :
       \E labels \in LabelVectors(n) :
       \E v \in [n : {n, MaxN}, ragged : BOOLEAN] :
       \E nc \in ArgClusters(labels) :
       \E nn \in ArgNoise(labels) :
       \E lib \in LibOutcomes(v, labels) :
          /\ call' = "evaluate_clustering"
          /\ vectors' = v
          /\ arg_labels' = labels
          /\ arg_n_clusters' = nc
          /\ arg_n_noise' = nn
          /\ np_array' = lib.array
          /\ ev_result' = Some(evaluate_clustering(v, labels, nc, nn, lib))
    /\ UNCHANGED <<evaluate_quality, last_quality_metrics, fp_result, gvars, nvars, xvars>>

NextQuality == FitPredict \/ EvaluateClustering

SpecQuality == InitQuality /\ [][NextQuality]_vars


-----------------------------------------------------------------------------
(* _get_quality_grade as a state machine: two scores, then their grades *)

\* the scores the grade function is applied to: a grid over [0,1], one step
\* beyond each end, and the values next to every cut-off
GridN == 20
ScoreGrid ==
    {(k * SCALE) \div GridN : k \in -1 .. GridN + 1}
    \cup {c + d : c \in {GradeExcellent, GradeGood, GradeFair, GradePoor}, d \in {-1, 0, 1}}

InitGrade ==
    /\ scores \in ScoreGrid \X ScoreGrid
    /\ grades = None
    /\ evaluate_quality = TRUE
    /\ QualityIdle
    /\ NarrativeIdle
    /\ ExtraIdle

GetQualityGrade ==
    /\ grades = None
    /\ grades' = Some(<<_get_quality_grade(scores[1]), _get_quality_grade(scores[2])>>)
    /\ UNCHANGED <<scores, qvars, nvars, xvars>>

NextGrade == GetQualityGrade

SpecGrade == InitGrade /\ [][NextGrade]_vars

-----------------------------------------------------------------------------
(* NarrativeBuilder: texts *)

\* A text is the sequence of its whitespace-separated words.  The words of the
\* model stand for: "v" a one-letter preposition, "ne" a two-letter particle,
\* "posle" a five-letter preposition, "rynok" and "neft" ordinary words,
\* "Rynok" a capitalised word, "long" a word of 60 letters.
Words == {"v", "ne", "posle", "rynok", "neft", "Rynok", "long"}

\* str.lower()
lower(w) == IF w = "Rynok" THEN "rynok" ELSE w

\* len(word)
WordLen(w) ==
    CASE w = "v" -> 1 [] w = "ne" -> 2 [] w = "long" -> 60 [] OTHER -> 5

\* the place of a lower-case word in string order
WordRank(w) ==
    CASE w = "long" -> 1 [] w = "v" -> 2 [] w = "ne" -> 3 [] w = "neft" -> 4
      [] w = "posle" -> 5 [] w = "rynok" -> 6

\* the words of the model that are in extended_stopwords
extended_stopwords == {"v", "ne", "posle"}

\* text.lower().split()
lower_split(text) == [i \in DOMAIN text |-> lower(text[i])]

RECURSIVE SumSeq(_)
SumSeq(q) == IF q = <<>> THEN 0 ELSE Head(q) + SumSeq(Tail(q))

\* len(term): a term is one to three words joined by single spaces
TermLen(term) == SumSeq([i \in DOMAIN term |-> WordLen(term[i])]) + Len(term) - 1

RECURSIVE TermLess(_, _)
\* string order of two terms (a space sorts before every letter)
TermLess(a, b) ==
    IF a = <<>> THEN b # <<>>
    ELSE IF b = <<>> THEN FALSE
    ELSE IF Head(a) = Head(b) THEN TermLess(Tail(a), Tail(b))
    ELSE WordRank(Head(a)) < WordRank(Head(b))

-----------------------------------------------------------------------------
(* NarrativeBuilder: the TfidfVectorizer fitted on the texts of one cluster *)

\* TfidfVectorizer(max_features=150, ngram_range=(1, 3), min_df=1, max_df=0.98)
MaxFeatures == 150
NgramMax == 3
MinDf == 1
MaxDfPercent == 98
\* the keyword filter 3 <= len(kw) <= 50 and the fallback's len(w) >= 3
MinKeywordLen == 3
MaxKeywordLen == 50

\* the default token pattern keeps the words of two or more letters, lower-cased
tfidf_tokens(text) == SelectSeq(lower_split(text), LAMBDA w : WordLen(w) >= 2)

\* the word n-grams of one document
ngrams(tokens) ==
    UNION {{SubSeq(tokens, i, i + k - 1) : i \in 1..(Len(tokens) - k + 1)} : k \in 1..NgramMax}

\* the number of times term occurs in the document
term_count(term, tokens) ==
    Cardinality({i \in 1..(Len(tokens) - Len(term) + 1) :
                    SubSeq(tokens, i, i + Len(term) - 1) = term})

\* the vocabulary the vectorizer keeps for the texts: Some(set of terms), or
\* Raise for the ValueError of an empty or fully pruned vocabulary
fit_vocabulary(texts) ==
    LET n == Len(texts)
        docs == [d \in 1..n |-> tfidf_tokens(texts[d])]
        vocab == UNION {ngrams(docs[d]) : d \in 1..n}
        df == [t \in vocab |-> Cardinality({d \in 1..n : term_count(t, docs[d]) > 0})]
        \* total count, by which max_features chooses
        tfs == [t \in vocab |-> SumSeq([d \in 1..n |-> term_count(t, docs[d])])]
        kept == {t \in vocab : 100 * df[t] <= MaxDfPercent * n /\ df[t] >= MinDf}
        before(u, t) == tfs[u] > tfs[t] \/ (tfs[u] = tfs[t] /\ TermLess(u, t))
        limited == IF Cardinality(kept) <= MaxFeatures THEN kept
                   ELSE {t \in kept :
                           Cardinality({u \in kept : before(u, t)}) < MaxFeatures}
    IN IF vocab = {} THEN Raise
       ELSE IF MaxDfPercent * n < 100 * MinDf THEN Raise
       ELSE IF limited = {} THEN Raise
       ELSE Some(limited)

\* smoothed idf of every term: ln((1 + n) / (1 + df)) + 1
idf_of(docs, vocabulary) ==
    [t \in vocabulary |->
        SCALE + math_log(1 + Len(docs))
              - math_log(1 + Cardinality({d \in DOMAIN docs : term_count(t, docs[d]) > 0}))]

\* sublinear tf times idf, per document and term
tfidf_weights(docs, idf, vocabulary) ==
    [d \in DOMAIN docs |-> [t \in vocabulary |->
        IF term_count(t, docs[d]) = 0 THEN 0
        ELSE ((SCALE + math_log(term_count(t, docs[d]))) * idf[t]) \div SCALE]]

\* the l2 norm of one row
l2_norm(row) == ISqrt(SumSet([t \in DOMAIN row |-> row[t] * row[t]], DOMAIN row))

\* one row divided by its norm
row_over(row, norm) ==
    [t \in DOMAIN row |-> IF norm = 0 THEN 0 ELSE (row[t] * SCALE) \div norm]

\* norm='l2': every row divided by its norm
l2_normalize(matrix) == [d \in DOMAIN matrix |-> row_over(matrix[d], l2_norm(matrix[d]))]

\* matrix.sum(axis=0)
sum_axis0(matrix, vocabulary) ==
    [t \in vocabulary |-> SumSeq([d \in DOMAIN matrix |-> matrix[d][t]])]

\* the documents as the vectorizer tokenises them
doc_tokens(texts) == [d \in DOMAIN texts |-> tfidf_tokens(texts[d])]

\* tfidf_matrix.sum(axis=0): for every term of the vocabulary the sum over the
\* documents of its weight (sublinear tf, smoothed idf, l2-normalised rows)
tfidf_scores(texts, vocabulary) ==
    sum_axis0(l2_normalize(tfidf_weights(doc_tokens(texts),
                                         idf_of(doc_tokens(texts), vocabulary),
                                         vocabulary)),
              vocabulary)

\* word_freq_bonus: the number of texts whose word set holds the term
word_freq_bonus(texts, term) ==
    IF Len(term) # 1 THEN 0
    ELSE Cardinality({d \in 1..Len(texts) :
                         \E i \in 1..Len(texts[d]) : lower(texts[d][i]) = term[1]})

\* combined_scores, in tenths: the score times (1 + 0.1 * bonus)
combined_scores(texts, vocabulary) ==
    LET scores_ == tfidf_scores(texts, vocabulary)
    IN [t \in vocabulary |-> scores_[t] * (10 + word_freq_bonus(texts, t))]

\* combined_scores.argsort()[-k:][::-1] as terms: the last k of the ascending
\* order, reversed; equal scores stay in feature order in the ascending order
top_terms(combined, k) ==
    LET vocabulary == DOMAIN combined
        after(u, t) == combined[u] > combined[t]
                       \/ (combined[u] = combined[t] /\ TermLess(t, u))
        place == [t \in vocabulary |-> 1 + Cardinality({u \in vocabulary : after(u, t)})]
        m == IF k = 0 THEN Cardinality(vocabulary) ELSE Min2(k, Cardinality(vocabulary))
    IN [i \in 1..m |-> CHOOSE t \in vocabulary : place[t] = i]

\* the keyword filter of the TF-IDF path
keyword_ok(term) == MinKeywordLen <= TermLen(term) /\ TermLen(term) <= MaxKeywordLen

\* the try block of _build_single_narrative: Some(keywords), or Raise
tfidf_keywords(texts, top_keywords) ==
    LET vocabulary == fit_vocabulary(texts)
    IN IF vocabulary = Raise THEN Raise
       ELSE LET top == top_terms(combined_scores(texts, vocabulary[1]), top_keywords)
                keywords == SelectSeq(top, keyword_ok)
            IN IF keywords = <<>> THEN Raise ELSE Some(keywords)

RECURSIVE Concat(_)
Concat(qs) == IF qs = <<>> THEN <<>> ELSE Head(qs) \o Concat(Tail(qs))

\* the word filter of the fallback
fallback_word_ok(w) == WordLen(w) >= MinKeywordLen /\ w \notin extended_stopwords

\* the except block of _build_single_narrative: Counter(all_words).most_common(k)
fallback_keywords(texts, top_keywords) ==
    LET all_words == Concat([d \in 1..Len(texts) |->
                                SelectSeq(lower_split(texts[d]), fallback_word_ok)])
        distinct == {all_words[i] : i \in 1..Len(all_words)}
        count == [w \in distinct |-> Cardinality({i \in 1..Len(all_words) : all_words[i] = w})]
        first == [w \in distinct |-> CHOOSE i \in 1..Len(all_words) :
                     all_words[i] = w /\ \A j \in 1..(i - 1) : all_words[j] # w]
        before(u, w) == count[u] > count[w] \/ (count[u] = count[w] /\ first[u] < first[w])
        place == [w \in distinct |-> 1 + Cardinality({u \in distinct : before(u, w)})]
        m == Min2(top_keywords, Cardinality(distinct))
    IN [i \in 1..m |-> <<CHOOSE w \in distinct : place[w] = i>>]

\* the keywords of a cluster: TF-IDF, or the fallback when it raises
extract_keywords(texts, top_keywords) ==
    LET k == tfidf_keywords(texts, top_keywords)
    IN IF k = Raise THEN fallback_keywords(texts, top_keywords) ELSE k[1]

-----------------------------------------------------------------------------
(* NarrativeBuilder *)

\* NarrativeBuilder(top_keywords, top_titles): the constructor's arguments
top_keywords == 2
top_titles == 2

\* an item: title and link, and source_name where the item's class has that
\* attribute (the NewsItem dataclass has none); source_name may be None
Item(title, link, has_source_name, source_name) ==
    [title |-> title, link |-> link,
     has_source_name |-> has_source_name, source_name |-> source_name]

\* sequence[:stop] keeps this many elements of a sequence of length len
slice_stop(len, stop) == IF stop >= 0 THEN Min2(stop, len) ELSE Max2(len + stop, 0)

\* item.source_name or "unknown source"
source_name_or_default(item) ==
    IF item.source_name = None THEN "unknown" ELSE item.source_name[1]

\* if processed_texts: a list that is neither None nor empty
truthy(processed) == processed # None /\ processed[1] # <<>>

\* _build_single_narrative, with indices counted from 0 as in the code
_build_single_narrative(items, indices, cluster_id, processed) ==
    IF \E j \in DOMAIN indices : indices[j] >= Len(items)
    THEN Raised
    ELSE IF truthy(processed) /\ \E j \in DOMAIN indices : indices[j] >= Len(processed[1])
    THEN Raised
    ELSE
      LET cluster_news == [j \in DOMAIN indices |-> items[indices[j] + 1]]
          texts == IF truthy(processed)
                   THEN [j \in DOMAIN indices |-> processed[1][indices[j] + 1]]
                   ELSE [j \in DOMAIN indices |-> cluster_news[j].title]
          keywords == extract_keywords(texts, top_keywords)
          shown == SubSeq(cluster_news, 1, slice_stop(Len(cluster_news), top_titles))
      IN IF \E j \in DOMAIN shown : ~shown[j].has_source_name
         THEN Raised
         ELSE Return([cluster_id |-> cluster_id,
                      size |-> Len(cluster_news),
                      keywords |-> keywords,
                      news_examples |-> [j \in DOMAIN shown |->
                          [title |-> shown[j].title, link |-> shown[j].link,
                           source_name |-> source_name_or_default(shown[j])]],
                      news_count |-> Len(cluster_news)])

\* the groups of item indices by label, noise skipped, in the order the labels
\* first appear
clusters_of(labels) ==
    LET ids == {labels[j] : j \in DOMAIN labels} \ {-1}
        first == [c \in ids |-> CHOOSE j \in DOMAIN labels :
                     labels[j] = c /\ \A h \in 1..(j - 1) : labels[h] # c]
        place == [c \in ids |-> 1 + Cardinality({d \in ids : first[d] < first[c]})]
    IN [k \in 1..Cardinality(ids) |->
           LET c == CHOOSE d \in ids : place[d] = k
           IN [cluster_id |-> c,
               indices |-> [h \in 1..Len(SelectSeq(labels, LAMBDA l : l = c)) |->
                   (CHOOSE j \in DOMAIN labels :
                       labels[j] = c
                       /\ Cardinality({g \in 1..j : labels[g] = c}) = h) - 1]]]

\* sorted(clusters.items(), key=size, reverse=False): ascending by size
sorted_clusters_ascending(clusters) ==
    LET before(a, b) == Len(clusters[a].indices) < Len(clusters[b].indices)
                        \/ (Len(clusters[a].indices) = Len(clusters[b].indices) /\ a < b)
        place == [a \in DOMAIN clusters |->
                     1 + Cardinality({b \in DOMAIN clusters : before(b, a)})]
    IN [k \in DOMAIN clusters |-> clusters[CHOOSE a \in DOMAIN clusters : place[a] = k]]

\* sorted(clusters.items(), key=size, reverse=True): descending by size, equal
\* sizes in their order in clusters
sorted_clusters(clusters) ==
    LET before(a, b) == Len(clusters[a].indices) > Len(clusters[b].indices)
                        \/ (Len(clusters[a].indices) = Len(clusters[b].indices) /\ a < b)
        place == [a \in DOMAIN clusters |->
                     1 + Cardinality({b \in DOMAIN clusters : before(b, a)})]
    IN [k \in DOMAIN clusters |-> clusters[CHOOSE a \in DOMAIN clusters : place[a] = k]]

\* build_narratives
build_narratives(items, labels, n, processed) ==
    LET sorted == sorted_clusters(clusters_of(labels))
        taken == SubSeq(sorted, 1, slice_stop(Len(sorted), n))
        built == [k \in DOMAIN taken |->
                     _build_single_narrative(items, taken[k].indices,
                                             taken[k].cluster_id, processed)]
    IN IF \E k \in DOMAIN built : built[k].raised
       THEN Raised
       ELSE Return([k \in DOMAIN built |-> built[k].value])

-----------------------------------------------------------------------------
(* NarrativeBuilder as a state machine: one call of build_narratives on a list
   of items, or one call of _build_single_narrative on one cluster *)

MaxItems == 4
MaxTexts == 3

\* the labels a clustering gives: noise and two clusters
NarrativeLabels == {-1, 0, 1}

\* the top_n a caller passes: negative, zero, fewer than the clusters, as many,
\* and more
TopNInputs == -1 .. Cardinality(NarrativeLabels)

\* the items build_narratives is given: one with a source, one whose source is
\* None, one NewsItem
ItemPool ==
    << Item(<<"Rynok", "neft">>, "a", TRUE, Some("tass")),
       Item(<<"v", "posle">>, "b", TRUE, None),
       Item(<<"rynok", "long">>, "c", FALSE, None) >>

\* the lists of n items, up to the order of the items (the labels take every order)
ItemLists(n) ==
    {[j \in 1..n |-> ItemPool[f[j]]] :
        f \in {g \in [1..n -> DOMAIN ItemPool] : \A j \in 1..(n - 1) : g[j] <= g[j + 1]}}

\* the texts of the cluster _build_single_narrative is given
TextPool ==
    { <<"v", "posle">>, <<"ne", "v">>, <<"posle", "ne">>, <<"Rynok", "neft">>,
      <<"rynok", "long">>, <<"long">>, <<"neft", "rynok", "neft">> }

SeqsUpTo(S, n) == UNION {[1..k -> S] : k \in 0..n}

\* the processed_texts a caller passes for n items: none, one per item, or one short
ProcessedInputs(n) ==
    {None, Some([j \in 1..n |-> <<"neft", "rynok">>])}
    \cup (IF n > 0 THEN {Some([j \in 1..(n - 1) |-> <<"neft", "rynok">>])} ELSE {})

InitNarrative ==
    /\ evaluate_quality = TRUE
    /\ QualityIdle
    /\ GradeIdle
    /\ NarrativeIdle
    /\ ExtraIdle

BuildNarratives ==
    /\ nb_call = "none"
    /\ \E items \in UNION {ItemLists(k) : k \in 0..MaxItems} :
       \E labels \in [1..Len(items) -> NarrativeLabels] :
       \E n \in TopNInputs :
       \E processed \in ProcessedInputs(Len(items)) :
          /\ nb_call' = "build_narratives"
          /\ news_items' = items
          /\ nb_labels' = labels
          /\ top_n' = n
          /\ processed_texts' = processed
          /\ nb_result' = Some(build_narratives(items, labels, n, processed))
    /\ UNCHANGED <<nb_indices, qvars, gvars, xvars>>

BuildSingleNarrative ==
    /\ nb_call = "none"
    /\ \E texts \in SeqsUpTo(TextPool, MaxTexts) :
       \E use_processed \in BOOLEAN :
       LET items == [j \in DOMAIN texts |->
                        Item(IF use_processed THEN <<"Rynok">> ELSE texts[j],
                             "a", TRUE, None)]
           indices == [j \in DOMAIN texts |-> j - 1]
           processed == IF use_processed THEN Some(texts) ELSE None
       IN /\ nb_call' = "_build_single_narrative"
          /\ news_items' = items
          /\ nb_indices' = indices
          /\ processed_texts' = processed
          /\ nb_result' = Some(_build_single_narrative(items, indices, 0, processed))
    /\ UNCHANGED <<nb_labels, top_n, qvars, gvars, xvars>>

NextNarrative == BuildNarratives \/ BuildSingleNarrative

SpecNarrative == InitNarrative /\ [][NextNarrative]_vars

-----------------------------------------------------------------------------
(* AsyncNewsProcessor.preprocess_texts_async: one task per item in a thread
   pool, the results collected with asyncio.as_completed *)

\* AsyncNewsProcessor(max_workers): the threads of the executor
max_workers == 2
MaxBatch == 3

\* the items of a batch: item i has id i; cleaning an item either works or raises
BatchItems(n) == {[i \in 1..n |-> [id |-> i, cleaner_raises |-> f[i]]] : f \in [1..n -> BOOLEAN]}

\* the empty string
EmptyText == <<>>

\* cleaner.preprocess(text) of an item the cleaner accepts
preprocess(item) == <<item.id>>

\* _preprocess_single_item: the cleaned text; every exception is caught and
\* becomes the empty string
_preprocess_single_item(item) ==
    IF item.cleaner_raises THEN Return(EmptyText) ELSE Return(preprocess(item))

\* the loop body of preprocess_texts_async for one finished task: the text, or
\* the empty string when awaiting the task raises
awaited_text(outcome) == IF outcome.raised THEN EmptyText ELSE outcome.value

InitPreprocess ==
    /\ evaluate_quality = TRUE
    /\ QualityIdle
    /\ GradeIdle
    /\ NarrativeIdle
    /\ ExtraIdle

\* lines 40-51: one run_in_executor task per item, in input order
PreprocessSubmit ==
    /\ pp_pc = "idle"
    /\ \E n \in 0..MaxBatch : \E items \in BatchItems(n) :
          /\ pp_items' = items
          /\ pp_queue' = [i \in 1..n |-> i]
    /\ pp_pc' = "collecting"
    /\ UNCHANGED <<pp_running, pp_completed, pp_processed, pp_result, qvars, gvars, nvars, bvars, cvars, svars, ovars, zvars, rvars, mvars>>

\* a free worker thread takes the oldest waiting task
WorkerTake ==
    /\ pp_queue # <<>>
    /\ Cardinality(pp_running) < max_workers
    /\ pp_running' = pp_running \cup {Head(pp_queue)}
    /\ pp_queue' = Tail(pp_queue)
    /\ UNCHANGED <<pp_pc, pp_items, pp_completed, pp_processed, pp_result, qvars, gvars, nvars, bvars, cvars, svars, ovars, zvars, rvars, mvars>>

\* a worker thread finishes its task; its future completes
WorkerFinish ==
    /\ \E i \in pp_running :
          /\ pp_running' = pp_running \ {i}
          /\ pp_completed' = Append(pp_completed, i)
    /\ UNCHANGED <<pp_pc, pp_items, pp_queue, pp_processed, pp_result, qvars, gvars, nvars, bvars, cvars, svars, ovars, zvars, rvars, mvars>>

\* lines 55-61: as_completed hands over the next finished task; its text is appended
Collect ==
    /\ pp_pc = "collecting"
    /\ pp_completed # <<>>
    /\ pp_processed' = Append(pp_processed,
                              awaited_text(_preprocess_single_item(pp_items[Head(pp_completed)])))
    /\ pp_completed' = Tail(pp_completed)
    /\ UNCHANGED <<pp_pc, pp_items, pp_queue, pp_running, pp_result, qvars, gvars, nvars, bvars, cvars, svars, ovars, zvars, rvars, mvars>>

\* lines 63-70: every task was received; the list is returned
PreprocessReturn ==
    /\ pp_pc = "collecting"
    /\ Len(pp_processed) = Len(pp_items)
    /\ pp_result' = Some(pp_processed)
    /\ pp_pc' = "returned"
    /\ UNCHANGED <<pp_items, pp_queue, pp_running, pp_completed, pp_processed, qvars, gvars, nvars, bvars, cvars, svars, ovars, zvars, rvars, mvars>>

NextPreprocess ==
    PreprocessSubmit \/ WorkerTake \/ WorkerFinish \/ Collect \/ PreprocessReturn

SpecPreprocess == InitPreprocess /\ [][NextPreprocess]_vars

-----------------------------------------------------------------------------
(* The batch: process_news_batch_async, and the clustering and narrative steps
   of run_daily main *)

\* run_daily main stops before vectorizing with fewer non-empty texts than this
MinNonEmptyTexts == 10

\* settings.top_narratives, a positive number
TopNarratives == {1, 2}

\* the texts preprocessing gave for n items
batch_texts(n) == [j \in 1..n |-> <<"neft", "rynok">>]

\* the vectors the vectorizer gave for n texts
batch_vectors_of(n) == [n |-> n, ragged |-> FALSE]

\* what a call returns that returns None
ReturnNone == Return(None)

\* the stages of process_news_batch_async, in the order of the code
Stages == <<"preprocess", "vectorize", "cluster", "narratives">>

\* a report that is made although the narratives failed
batch_report_partial(n, cluster, narratives) ==
    [stages |-> Stages,
     cluster |-> Some(cluster), narratives |-> Some(narratives),
     result |-> Return(Some([narratives |-> IF narratives.raised THEN <<>>
                                            ELSE narratives.value,
                             total_news |-> n,
                             clusters_found |-> cluster.value.n_clusters]))]

\* lines 301-318: the result once the narratives stage has ended
batch_report(n, cluster, narratives) ==
    IF narratives.raised
    THEN [stages |-> Stages,
          cluster |-> Some(cluster), narratives |-> Some(narratives),
          result |-> ReturnNone]
    ELSE [stages |-> Stages,
          cluster |-> Some(cluster), narratives |-> Some(narratives),
          result |-> Return(Some([narratives |-> narratives.value,
                                  total_news |-> n,
                                  clusters_found |-> cluster.value.n_clusters]))]

\* lines 291-303: after clustering, the narratives are built
batch_after_cluster(items, cluster, n_top) ==
    IF cluster.raised
    THEN [stages |-> SubSeq(Stages, 1, 3),
          cluster |-> Some(cluster), narratives |-> None, result |-> ReturnNone]
    ELSE batch_report(Len(items), cluster,
                      build_narratives(items, cluster.value.labels, n_top,
                                       Some(batch_texts(Len(items)))))

\* process_news_batch_async: the preprocessed texts are as many as the items,
\* vec is the vectorizer's outcome, hdb and lib the libraries' outcomes in
\* fit_predict
process_news_batch_async(items, vec, hdb, lib, n_top) ==
    IF Len(items) = 0
    THEN [stages |-> SubSeq(Stages, 1, 1),
          cluster |-> None, narratives |-> None, result |-> ReturnNone]
    ELSE IF vec = Raise
    THEN [stages |-> SubSeq(Stages, 1, 2),
          cluster |-> None, narratives |-> None, result |-> ReturnNone]
    ELSE batch_after_cluster(items,
             fit_predict(batch_vectors_of(Len(items)), TRUE, None, hdb, lib).result, n_top)

\* run_daily main, lines 265-278: an exception of build_narratives leaves no
\* narratives, and the report is made
main_report(n, cluster, narratives) ==
    [stages |-> SubSeq(Stages, 3, 4),
     cluster |-> Some(cluster), narratives |-> Some(narratives),
     result |-> Return(Some([narratives |-> IF narratives.raised THEN <<>>
                                            ELSE narratives.value,
                             total_news |-> n,
                             clusters_found |-> cluster.value.n_clusters]))]

\* run_daily main, lines 231-263: an exception of fit_predict is raised again
main_after_cluster(items, cluster, n_top) ==
    IF cluster.raised
    THEN [stages |-> SubSeq(Stages, 3, 3),
          cluster |-> Some(cluster), narratives |-> None, result |-> Raised]
    ELSE main_report(Len(items), cluster,
                     build_narratives(items, cluster.value.labels, n_top,
                                      Some(batch_texts(Len(items)))))

\* run_daily main from the clustering step to the report
main_cluster_and_report(items, hdb, lib, n_top) ==
    main_after_cluster(items,
        fit_predict(batch_vectors_of(Len(items)), TRUE, None, hdb, lib).result, n_top)

MaxBatchItems == 3

\* what HDBSCAN answers for n points
HdbscanAnswers(n) == {Raise} \cup {Some(l) : l \in LabelVectors(n)}

InitBatch ==
    /\ evaluate_quality = TRUE
    /\ QualityIdle
    /\ GradeIdle
    /\ NarrativeIdle
    /\ ExtraIdle

ProcessNewsBatchAsync ==
    /\ batch_call = "none"
    /\ \E items \in UNION {ItemLists(k) : k \in 0..MaxBatchItems} :
       \E vec \in {Raise, Some(Len(items))} :
       \E hdb \in HdbscanAnswers(Len(items)) :
       \E lib \in LibOutcomesOfCalls(batch_vectors_of(Len(items)), IF hdb = Raise THEN <<>> ELSE hdb[1]) :
       \E n_top \in TopNarratives :
       \E r \in {process_news_batch_async(items, vec, hdb, lib, n_top)} :
          /\ batch_call' = "process_news_batch_async"
          /\ batch_items' = items
          /\ batch_vectors' = IF Len(items) = 0 THEN None ELSE vec
          /\ batch_stages' = r.stages
          /\ batch_cluster' = r.cluster
          /\ batch_narratives' = r.narratives
          /\ batch_result' = Some(r.result)
    /\ UNCHANGED <<qvars, gvars, nvars, pvars, cvars, svars, ovars, zvars, rvars, mvars>>

RunDailyMain ==
    /\ batch_call = "none"
    /\ \E item \in {ItemPool[k] : k \in DOMAIN ItemPool} :
       \E hdb \in HdbscanAnswers(MinNonEmptyTexts) :
       \E lib \in LibOutcomesOfCalls(batch_vectors_of(MinNonEmptyTexts), IF hdb = Raise THEN <<>> ELSE hdb[1]) :
       \E n_top \in TopNarratives :
       \E r \in {main_cluster_and_report([j \in 1..MinNonEmptyTexts |-> item], hdb, lib, n_top)} :
          /\ batch_call' = "main"
          /\ batch_items' = [j \in 1..MinNonEmptyTexts |-> item]
          /\ batch_vectors' = Some(MinNonEmptyTexts)
          /\ batch_stages' = r.stages
          /\ batch_cluster' = r.cluster
          /\ batch_narratives' = r.narratives
          /\ batch_result' = Some(r.result)
    /\ UNCHANGED <<qvars, gvars, nvars, pvars, cvars, svars, ovars, zvars, rvars, mvars>>

NextBatch == ProcessNewsBatchAsync \/ RunDailyMain

SpecBatch == InitBatch /\ [][NextBatch]_vars

-----------------------------------------------------------------------------
(* NewsClusterer with its parameters: fit_predict and optimize_parameters *)

\* HDBSCAN numbers its clusters 0, 1, ... and forms no cluster of fewer than
\* min_cluster_size points
hdbscan_labels_ok(l, self) ==
    /\ LabelSet(l) \ {-1} = 0 .. (Cardinality(LabelSet(l) \ {-1}) - 1)
    /\ \A c \in LabelSet(l) \ {-1} : CountOf(l, c) >= self.min_cluster_size

\* what self.clusterer.fit_predict can do for n points: raise, or label them
HdbscanFor(n, self) ==
    {Raise} \cup {Some(l) : l \in {x \in LabelVectors(n) : hdbscan_labels_ok(x, self)}}

\* the same, with one labelling for every choice of cluster sizes
HdbscanGroupedFor(n, self) ==
    {Raise} \cup {Some(l) : l \in {x \in Grouped(n, -1) : hdbscan_labels_ok(x, self)}}

\* params.get(name, default), metrics.get(name, default)
get(d, name, default) == IF name \in DOMAIN d THEN d[name] ELSE default

RECURSIVE product(_)
\* itertools.product of the value lists, the last list varying fastest
product(lists) ==
    IF lists = <<>> THEN << <<>> >>
    ELSE LET rest == product(Tail(lists))
             vals == Head(lists)
         IN [k \in 1..(Len(vals) * Len(rest)) |->
                <<vals[((k - 1) \div Len(rest)) + 1]>> \o rest[((k - 1) % Len(rest)) + 1]]

\* dict(zip(param_names, combo))
zip_params(names, combo) ==
    [name \in {names[j] : j \in DOMAIN names} |->
        combo[CHOOSE j \in DOMAIN names : names[j] = name]]

\* the clusterer optimize_parameters builds for one combination
test_clusterer(params, self) ==
    NewsClusterer(get(params, "min_cluster_size", self.min_cluster_size),
                  Some(get(params, "min_samples", self.min_samples)),
                  get(params, "metric", self.metric))

\* best_score, best_params, best_metrics before the loop
InitialBest == [best_score |-> 0, best_params |-> EmptyDict, best_metrics |-> EmptyDict]

\* a comparison that lets an equal score replace the best
score_is_better_or_equal(score, best_score) == score >= best_score

\* if score > best_score
score_is_better(score, best_score) == score > best_score

\* an except branch that forgets the best result
except_reset(best) == InitialBest

\* except Exception: continue
except_continue(best) == best

\* the body of the loop for one combination: run is how fit_predict of the test
\* clusterer ended and the metrics it left
optimize_step(best, params, run) ==
    IF run.result.raised THEN except_continue(best)
    ELSE IF run.lqm = None \/ DOMAIN run.lqm[1] = {} THEN best
    ELSE IF score_is_better(get(run.lqm[1], "overall_quality_score", 0), best.best_score)
    THEN [best_score |-> get(run.lqm[1], "overall_quality_score", 0),
          best_params |-> params,
          best_metrics |-> run.lqm[1]]
    ELSE best

\* what is recorded of one combination
optimize_run(params, clusterer, run, after) ==
    [params |-> params, applied |-> clusterer,
     raised |-> run.result.raised,
     score |-> IF run.result.raised \/ run.lqm = None THEN None
               ELSE Some(get(run.lqm[1], "overall_quality_score", 0)),
     best |-> after]

RECURSIVE optimize_loop(_, _, _, _, _, _)
\* one combination done, the loop goes on with the best so far
optimize_next(self, v, names, combos, answers, this) ==
    <<this>> \o optimize_loop(self, v, names, Tail(combos), Tail(answers), this.best)

\* lines 184-208 for one combination whose parameters and run are known
optimize_one(self, v, names, combos, answers, best, params, run) ==
    optimize_next(self, v, names, combos, answers,
                  optimize_run(params, test_clusterer(params, self), run,
                               optimize_step(best, params, run)))

\* the loop over the combinations that are left: what happened for each
optimize_loop(self, v, names, combos, answers, best) ==
    IF combos = <<>> THEN <<>>
    ELSE optimize_one(self, v, names, combos, answers, best,
                      zip_params(names, Head(combos)),
                      fit_predict(v, TRUE, None, Head(answers).hdb, Head(answers).lib))

\* the dictionary optimize_parameters returns after the runs
optimize_return(runs) ==
    LET best == IF runs = <<>> THEN InitialBest ELSE runs[Len(runs)].best
    IN Return([best_params |-> best.best_params, best_score |-> best.best_score,
               best_metrics |-> best.best_metrics])

\* the names and the combinations of parameter_ranges, a list of name and values
range_names(ranges) == [j \in DOMAIN ranges |-> ranges[j].name]
range_combinations(ranges) == product([j \in DOMAIN ranges |-> ranges[j].values])

MaxPoints == 4
MaxMinClusterSize == 3

\* the parameter_ranges a caller passes; cluster_selection_epsilon in tenths
RangeInputs ==
    { <<>>,
      <<[name |-> "min_cluster_size", values |-> <<2, 3>>]>>,
      <<[name |-> "min_cluster_size", values |-> <<3, 2>>]>>,
      <<[name |-> "cluster_selection_epsilon", values |-> <<0, 5>>]>>,
      <<[name |-> "min_samples", values |-> <<>>]>>,
      <<[name |-> "min_cluster_size", values |-> <<2, MaxMinClusterSize + 1>>],
        [name |-> "min_samples", values |-> <<1, 2>>]>> }

RECURSIVE AnswerSeqs(_, _, _)
\* for every combination, HDBSCAN's answer to its clusterer and the outcomes of
\* the metric library
AnswerSeqs(v, self, paramseq) ==
    IF paramseq = <<>> THEN {<<>>}
    ELSE {<<[hdb |-> h, lib |-> lib]>> \o rest :
             h \in HdbscanGroupedFor(v.n, test_clusterer(Head(paramseq), self)),
             lib \in LibOutcomes(v, <<>>),
             rest \in AnswerSeqs(v, self, Tail(paramseq))}

InitClusterer ==
    /\ evaluate_quality \in BOOLEAN
    /\ QualityIdle
    /\ GradeIdle
    /\ NarrativeIdle
    /\ ExtraIdle

\* NewsClusterer(min_cluster_size=m, evaluate_quality=...).fit_predict(vectors)
FitPredictConfigured ==
    /\ nc_call = "none"
    /\ \E m \in 2..MaxMinClusterSize :
       \E v \in [n : 0..MaxPoints, ragged : BOOLEAN] :
       \E hdb \in HdbscanFor(v.n, NewsClusterer(m, None, "cosine")) :
       \E lib \in LibOutcomes(v, IF hdb = Raise THEN <<>> ELSE hdb[1]) :
          /\ nc_call' = "fit_predict"
          /\ nc_self' = NewsClusterer(m, None, "cosine")
          /\ nc_vectors' = v
          /\ hdbscan_called' = (~v.ragged /\ v.n > 0)
          /\ hdbscan_answer' = IF ~v.ragged /\ v.n > 0 THEN hdb ELSE Raise
          /\ nc_result' = Some(fit_predict(v, evaluate_quality, None, hdb, lib).result)
    /\ UNCHANGED <<parameter_ranges, opt_runs, opt_result, qvars, gvars, nvars, pvars, bvars, svars, ovars, zvars, rvars, mvars>>

\* optimize_parameters(vectors, parameter_ranges) on a default clusterer
OptimizeParameters ==
    /\ nc_call = "none"
    /\ \E v \in [n : 1..MaxPoints, ragged : BOOLEAN] :
       \E ranges \in RangeInputs :
       \E answers \in AnswerSeqs(v, nc_self,
             [k \in DOMAIN range_combinations(ranges) |->
                 zip_params(range_names(ranges), range_combinations(ranges)[k])]) :
       \E runs \in {optimize_loop(nc_self, v, range_names(ranges),
                                  range_combinations(ranges), answers, InitialBest)} :
          /\ nc_call' = "optimize_parameters"
          /\ nc_vectors' = v
          /\ parameter_ranges' = ranges
          /\ opt_runs' = runs
          /\ opt_result' = Some(optimize_return(runs))
    /\ UNCHANGED <<nc_self, hdbscan_called, hdbscan_answer, nc_result, qvars, gvars, nvars, pvars, bvars, svars, ovars, zvars, rvars, mvars>>

NextClusterer == FitPredictConfigured \/ OptimizeParameters

SpecClusterer == InitClusterer /\ [][NextClusterer]_vars

-----------------------------------------------------------------------------
(* _assess_cluster_stability on labellings with larger clusters *)

MaxStabClusters == 4
MaxClusterSize == 7

RECURSIVE labels_of_sizes(_, _)
\* the labels of clusters k, k+1, ... of the given sizes, cluster by cluster
labels_of_sizes(sizes, k) ==
    IF k > Len(sizes) THEN <<>>
    ELSE Rep(k - 1, sizes[k]) \o labels_of_sizes(sizes, k + 1)

\* the cluster sizes tried, smallest first
SizeLists ==
    UNION {{f \in [1..k -> 1..MaxClusterSize] : \A j \in 1..(k - 1) : f[j] <= f[j + 1]} :
              k \in 0..MaxStabClusters}

InitStability ==
    /\ evaluate_quality = TRUE
    /\ QualityIdle
    /\ GradeIdle
    /\ NarrativeIdle
    /\ ExtraIdle

\* _assess_cluster_stability(labels, n_clusters)
AssessClusterStability ==
    /\ st_call = "none"
    /\ \E sizes \in SizeLists :
       \E noise \in 0..1 :
       \E nc \in {Len(sizes), 0, Len(sizes) + 1} :
       \E labels \in {Rep(-1, noise) \o labels_of_sizes(sizes, 1)} :
          /\ st_call' = "_assess_cluster_stability"
          /\ st_labels' = labels
          /\ st_n_clusters' = nc
          /\ st_result' = Some(_assess_cluster_stability(labels, nc))
    /\ UNCHANGED <<qvars, gvars, nvars, pvars, bvars, cvars, ovars, zvars, rvars, mvars>>

NextStability == AssessClusterStability

SpecStability == InitStability /\ [][NextStability]_vars

-----------------------------------------------------------------------------
(* _calculate_overall_quality_score on two maps that differ in davies_bouldin_score *)

ScoreSteps == 1

\* the values a metric takes in the maps tried; None when the key is absent
UnitValues == {None} \cup {Some((k * SCALE) \div ScoreSteps) : k \in 0..ScoreSteps}
SilhouetteInputs == {None, Some(-SCALE), Some(SCALE \div 2)}
CalinskiInputs == {None, Some(0), Some(500 * SCALE)}
DaviesInputs == {None, Some(0), Some(SCALE), Some(3 * SCALE)}

\* the dictionary with the keys whose value is given
dict_of(choice) ==
    [k \in {key \in DOMAIN choice : choice[key] # None} |-> choice[k][1]]

\* metrics with davies_bouldin_score set to d, or without the key
with_davies(metrics, d) ==
    IF d = None THEN metrics ELSE update(metrics, [davies_bouldin_score |-> d[1]])

MetricMaps ==
    {dict_of(c) : c \in [silhouette_score : SilhouetteInputs,
                         calinski_harabasz_score : CalinskiInputs,
                         coverage_score : UnitValues,
                         balance_score : UnitValues,
                         stability_score : UnitValues,
                         efficiency_score : UnitValues]}

\* the score and the grade evaluate_clustering derives from a metrics map
score_and_grade(score) == [score |-> score, grade |-> _get_quality_grade(score)]

InitScore ==
    /\ evaluate_quality = TRUE
    /\ QualityIdle
    /\ GradeIdle
    /\ NarrativeIdle
    /\ ExtraIdle

\* _calculate_overall_quality_score and _get_quality_grade on two maps that
\* agree except in davies_bouldin_score
CalculateOverallQualityScore ==
    /\ os_result = None
    /\ \E metrics \in MetricMaps :
       \E d1 \in DaviesInputs : \E d2 \in DaviesInputs \ {d1} :
          /\ os_metrics' = metrics
          /\ os_davies' = <<d1, d2>>
          /\ os_result' = Some(<<
                 score_and_grade(_calculate_overall_quality_score(with_davies(metrics, d1))),
                 score_and_grade(_calculate_overall_quality_score(with_davies(metrics, d2)))>>)
    /\ UNCHANGED <<qvars, gvars, nvars, pvars, bvars, cvars, svars, zvars, rvars, mvars>>

NextScore == CalculateOverallQualityScore

SpecScore == InitScore /\ [][NextScore]_vars

-----------------------------------------------------------------------------
(* RedisCache *)

\* what self.client.ping() can do: answer, or raise redis.ConnectionError (or a
\* subclass), redis.TimeoutError (not a ConnectionError), or another exception
PingOutcomes == {"ok", "ConnectionError", "TimeoutError", "Exception"}

\* _test_connection: the client after it, or the exception passed on
test_connection(ping) ==
    IF ping = "ok" THEN Return(Some("Redis"))
    ELSE IF ping = "ConnectionError" THEN Return(None)
    ELSE Raised

\* a text is the sequence of its characters
Text_a == <<"a">>
Text_b == <<"b">>
Text_a_bar_b == <<"a", "|", "b">>
TextInputs == {<<>>, Text_a, Text_b, Text_a_bar_b}

\* "|".join(texts)
RECURSIVE join(_)
join(texts) ==
    IF Len(texts) = 0 THEN <<>>
    ELSE IF Len(texts) = 1 THEN texts[1]
    ELSE texts[1] \o <<"|">> \o join(Tail(texts))

\* _hash_texts: the first 16 hex digits of the SHA-256 of the joined texts,
\* taken here as different for different contents
hash_texts(texts) == <<"sha256", join(texts)>>

\* _make_key
make_key(prefix, data_hash) == <<"news_analyzer", prefix, data_hash>>

\* the key of the vectors of texts
vectors_key(texts) == make_key("vectors", hash_texts(texts))

\* pickle.dumps and pickle.loads
pickle_dumps(v) == <<"pickle", v>>
pickle_loads(data) == data[2]

\* the server as a function from keys to data
StoreKeys(store) == {e[1] : e \in store}
StoreGet(store, key) ==
    IF key \in StoreKeys(store) THEN Some((CHOOSE e \in store : e[1] = key)[2]) ELSE None
StoreSet(store, key, data) == {e \in store : e[1] # key} \cup {<<key, data>>}

\* get_vectorized_texts: the value returned; fails when client.get raises
get_vectorized_texts(client, store, texts, fails) ==
    IF client = None THEN None
    ELSE IF fails THEN None
    ELSE IF StoreGet(store, vectors_key(texts)) = None THEN None
    ELSE Some(pickle_loads(StoreGet(store, vectors_key(texts))[1]))

\* set_vectorized_texts: the server after it; fails when client.setex raises
set_vectorized_texts(client, store, texts, vecs, fails) ==
    IF client = None THEN store
    ELSE IF fails THEN store
    ELSE StoreSet(store, vectors_key(texts), pickle_dumps(vecs))

MaxListLen == 2
MaxCalls == 3
TextLists == UNION {[1..n -> TextInputs] : n \in 0..MaxListLen}
CachedVectors == {<<<<1>>>>, <<<<2>>>>}

InitRedis ==
    /\ evaluate_quality = TRUE
    /\ QualityIdle
    /\ GradeIdle
    /\ NarrativeIdle
    /\ ExtraIdle

\* RedisCache(): the client is made, then _test_connection pings
ConstructRedisCache ==
    /\ rc_client = Some("unconstructed")
    /\ \E ping \in PingOutcomes :
       \E r \in {test_connection(ping)} :
          /\ rc_ping' = ping
          /\ rc_client' = IF r.raised THEN Some("raised") ELSE r.value
    /\ UNCHANGED <<rc_store, rc_sets, rc_call, rc_calls>>
    /\ UNCHANGED <<qvars, gvars, nvars, pvars, bvars, cvars, svars, ovars, zvars, mvars>>

Constructed == rc_client \in {Some("Redis"), None}

SetVectorizedTexts ==
    /\ Constructed
    /\ rc_calls < MaxCalls
    /\ \E texts \in TextLists : \E vecs \in CachedVectors : \E fails \in BOOLEAN :
          /\ rc_store' = set_vectorized_texts(rc_client, rc_store, texts, vecs, fails)
          /\ rc_sets' = rc_sets \cup {<<texts, vecs>>}
          /\ rc_call' = [op |-> "set", texts |-> texts, result |-> None]
    /\ rc_calls' = rc_calls + 1
    /\ UNCHANGED <<rc_client, rc_ping>>
    /\ UNCHANGED <<qvars, gvars, nvars, pvars, bvars, cvars, svars, ovars, zvars, mvars>>

GetVectorizedTexts ==
    /\ Constructed
    /\ rc_calls < MaxCalls
    /\ \E texts \in TextLists : \E fails \in BOOLEAN :
          rc_call' = [op |-> "get", texts |-> texts,
                      result |-> get_vectorized_texts(rc_client, rc_store, texts, fails)]
    /\ rc_calls' = rc_calls + 1
    /\ UNCHANGED <<rc_client, rc_ping, rc_store, rc_sets>>
    /\ UNCHANGED <<qvars, gvars, nvars, pvars, bvars, cvars, svars, ovars, zvars, mvars>>

\* the ttl of a key runs out on the server
ExpireKey ==
    /\ \E e \in rc_store : rc_store' = rc_store \ {e}
    /\ UNCHANGED <<rc_client, rc_ping, rc_sets, rc_call, rc_calls>>
    /\ UNCHANGED <<qvars, gvars, nvars, pvars, bvars, cvars, svars, ovars, zvars, mvars>>

NextRedis ==
    \/ ConstructRedisCache
    \/ SetVectorizedTexts
    \/ GetVectorizedTexts
    \/ ExpireKey

SpecRedis == InitRedis /\ [][NextRedis]_vars

-----------------------------------------------------------------------------
(* main of run_daily.py *)

\* the default of MIN_NEWS_THRESHOLD
MinNewsThreshold == 10
MaxNewsCount == 14

\* where a statement inside the try block of lines 100-384 goes on: to the
\* next statement, to the handler of line 386 for an Exception, and to the
\* finally clause for a return, a sys.exit, a KeyboardInterrupt or the end of
\* the block
next_in_try(outcome, next) ==
    IF outcome = "ok" THEN next
    ELSE IF outcome = "Exception" THEN "except"
    ELSE "finally"

pending_in_try(outcome) ==
    IF outcome \in {"ok", "Exception"} THEN "none" ELSE outcome

\* a clean-up that is skipped when sys.exit leaves the block
finally_runs_unless_exit(pending) == pending # "SystemExit"

\* lines 393-394: the finally clause runs however the try block is left
finally_runs(pending) == TRUE

\* where main goes once the finally clause is done: an Exception goes to the
\* handlers of lines 396-403, anything else ends main
after_finally(pending) ==
    IF pending = "Exception" THEN "outer_except" ELSE "exited"

InitMain ==
    /\ evaluate_quality = TRUE
    /\ QualityIdle
    /\ GradeIdle
    /\ NarrativeIdle
    /\ ExtraIdle

\* lines 51-93: logging, NLTK data, settings and directories
MainSetup ==
    /\ main_pc = "idle"
    /\ \E outcome \in {"ok", "Exception"} :
          main_pc' = IF outcome = "ok" THEN "connect" ELSE "outer_except"
    /\ UNCHANGED <<main_pending, main_exit, main_news_count, db_conn, db_connected, db_disconnects>>
    /\ UNCHANGED <<qvars, gvars, nvars, pvars, bvars, cvars, svars, ovars, zvars, rvars>>

\* lines 97-98: Database(...); db.connect(), which raises when psycopg2 does
MainConnect ==
    /\ main_pc = "connect"
    /\ \E outcome \in {"ok", "Exception"} :
          /\ main_pc' = IF outcome = "ok" THEN "test_connection" ELSE "outer_except"
          /\ db_conn' = (outcome = "ok")
          /\ db_connected' = (outcome = "ok")
    /\ UNCHANGED <<main_pending, main_exit, main_news_count, db_disconnects>>
    /\ UNCHANGED <<qvars, gvars, nvars, pvars, bvars, cvars, svars, ovars, zvars, rvars>>

\* lines 102-104: sys.exit(1) when db.test_connection() is false
MainTestConnection ==
    /\ main_pc = "test_connection"
    /\ \E outcome \in {"ok", "SystemExit", "KeyboardInterrupt"} :
          /\ main_pc' = next_in_try(outcome, "count")
          /\ main_pending' = pending_in_try(outcome)
    /\ UNCHANGED <<main_exit, main_news_count, db_conn, db_connected, db_disconnects>>
    /\ UNCHANGED <<qvars, gvars, nvars, pvars, bvars, cvars, svars, ovars, zvars, rvars>>

\* lines 107-121: return when there are fewer news than the threshold
MainCountNews ==
    /\ main_pc = "count"
    /\ \/ \E news_count \in 0..MaxNewsCount :
             /\ main_news_count' = news_count
             /\ main_pc' = next_in_try(IF news_count < MinNewsThreshold THEN "return" ELSE "ok", "fetch")
             /\ main_pending' = pending_in_try(IF news_count < MinNewsThreshold THEN "return" ELSE "ok")
       \/ /\ main_pc' = next_in_try("Exception", "fetch")
          /\ main_pending' = pending_in_try("Exception")
          /\ UNCHANGED main_news_count
    /\ UNCHANGED <<main_exit, db_conn, db_connected, db_disconnects>>
    /\ UNCHANGED <<qvars, gvars, nvars, pvars, bvars, cvars, svars, ovars, zvars, rvars>>

\* lines 124-130: return when fetch_recent_news gives nothing
MainFetchNews ==
    /\ main_pc = "fetch"
    /\ \E outcome \in {"ok", "return", "Exception"} :
          /\ main_pc' = next_in_try(outcome, "preprocess")
          /\ main_pending' = pending_in_try(outcome)
    /\ UNCHANGED <<main_exit, main_news_count, db_conn, db_connected, db_disconnects>>
    /\ UNCHANGED <<qvars, gvars, nvars, pvars, bvars, cvars, svars, ovars, zvars, rvars>>

\* lines 133-193: return when there are no texts or fewer than ten non-empty ones
MainPreprocess ==
    /\ main_pc = "preprocess"
    /\ \E outcome \in {"ok", "return", "Exception"} :
          /\ main_pc' = next_in_try(outcome, "vectorize")
          /\ main_pending' = pending_in_try(outcome)
    /\ UNCHANGED <<main_exit, main_news_count, db_conn, db_connected, db_disconnects>>
    /\ UNCHANGED <<qvars, gvars, nvars, pvars, bvars, cvars, svars, ovars, zvars, rvars>>

\* lines 196-226: return when there are no vectors; an exception is logged and raised again
MainVectorize ==
    /\ main_pc = "vectorize"
    /\ \E outcome \in {"ok", "return", "Exception"} :
          /\ main_pc' = next_in_try(outcome, "cluster")
          /\ main_pending' = pending_in_try(outcome)
    /\ UNCHANGED <<main_exit, main_news_count, db_conn, db_connected, db_disconnects>>
    /\ UNCHANGED <<qvars, gvars, nvars, pvars, bvars, cvars, svars, ovars, zvars, rvars>>

\* lines 229-243: an exception is logged and raised again
MainCluster ==
    /\ main_pc = "cluster"
    /\ \E outcome \in {"ok", "Exception", "KeyboardInterrupt"} :
          /\ main_pc' = next_in_try(outcome, "narratives")
          /\ main_pending' = pending_in_try(outcome)
    /\ UNCHANGED <<main_exit, main_news_count, db_conn, db_connected, db_disconnects>>
    /\ UNCHANGED <<qvars, gvars, nvars, pvars, bvars, cvars, svars, ovars, zvars, rvars>>

\* lines 246-265: an exception leaves narratives empty
MainBuildNarratives ==
    /\ main_pc = "narratives"
    /\ \E outcome \in {"ok", "KeyboardInterrupt"} :
          /\ main_pc' = next_in_try(outcome, "report")
          /\ main_pending' = pending_in_try(outcome)
    /\ UNCHANGED <<main_exit, main_news_count, db_conn, db_connected, db_disconnects>>
    /\ UNCHANGED <<qvars, gvars, nvars, pvars, bvars, cvars, svars, ovars, zvars, rvars>>

\* lines 267-384: the report, the database record and Telegram; the try
\* block ends
MainReport ==
    /\ main_pc = "report"
    /\ \E outcome \in {"end", "Exception"} :
          /\ main_pc' = next_in_try(outcome, "finally")
          /\ main_pending' = pending_in_try(outcome)
    /\ UNCHANGED <<main_exit, main_news_count, db_conn, db_connected, db_disconnects>>
    /\ UNCHANGED <<qvars, gvars, nvars, pvars, bvars, cvars, svars, ovars, zvars, rvars>>

\* lines 386-391: the handler logs and raises again
MainExcept ==
    /\ main_pc = "except"
    /\ main_pc' = "finally"
    /\ main_pending' = "Exception"
    /\ UNCHANGED <<main_exit, main_news_count, db_conn, db_connected, db_disconnects>>
    /\ UNCHANGED <<qvars, gvars, nvars, pvars, bvars, cvars, svars, ovars, zvars, rvars>>

\* lines 393-394 with Database.disconnect: close raises or _conn becomes None
MainFinally ==
    /\ main_pc = "finally"
    /\ \E close_raises \in BOOLEAN :
          /\ db_disconnects' = IF finally_runs(main_pending) THEN db_disconnects + 1 ELSE db_disconnects
          /\ db_conn' = IF finally_runs(main_pending) /\ ~close_raises THEN FALSE ELSE db_conn
          /\ main_pending' = IF finally_runs(main_pending) /\ db_conn /\ close_raises THEN "Exception"
                             ELSE main_pending
          /\ main_pc' = after_finally(main_pending')
          /\ main_exit' = IF after_finally(main_pending') = "exited" THEN main_pending' ELSE main_exit
    /\ UNCHANGED <<main_news_count, db_connected>>
    /\ UNCHANGED <<qvars, gvars, nvars, pvars, bvars, cvars, svars, ovars, zvars, rvars>>

\* lines 396-403: both handlers end with sys.exit(1)
MainOuterExcept ==
    /\ main_pc = "outer_except"
    /\ main_pc' = "exited"
    /\ main_exit' = "SystemExit"
    /\ UNCHANGED <<main_pending, main_news_count, db_conn, db_connected, db_disconnects>>
    /\ UNCHANGED <<qvars, gvars, nvars, pvars, bvars, cvars, svars, ovars, zvars, rvars>>

NextMain ==
    \/ MainSetup
    \/ MainConnect
    \/ MainTestConnection
    \/ MainCountNews
    \/ MainFetchNews
    \/ MainPreprocess
    \/ MainVectorize
    \/ MainCluster
    \/ MainBuildNarratives
    \/ MainReport
    \/ MainExcept
    \/ MainFinally
    \/ MainOuterExcept

\* main is one thread that keeps running until it has ended
SpecMain == InitMain /\ [][NextMain]_vars /\ WF_vars(NextMain)

-----------------------------------------------------------------------------
(* The cosine normalisation of fit_predict in float32 *)

\* A row is a direction times a power of two, 2^exp: multiplying by a power of
\* two is exact in binary floating point, so rounding plays no part and only
\* the range of float32 does.  unit marks a row divided by its norm.
Row(dir, exp, unit) == [dir |-> dir, exp |-> exp, unit |-> unit]
ZeroRow == Row("zero", 0, FALSE)

\* the directions [0,0], [1,0] and [1,1], and the binary exponent of the sum of
\* squares of the last two
Directions == {"zero", "x", "xy"}
SquaredNormExp(dir) == IF dir = "xy" THEN 1 ELSE 0

\* float32: a sum of squares from 2^128 on is inf, a square up to 2^-150 is 0
Float32InfExp == 128
Float32ZeroExp == -150

\* np.linalg.norm(X, axis=1) of a row in float32: "zero", "inf" or "finite"
norm_of(row) ==
    IF row.dir = "zero" THEN "zero"
    ELSE IF 2 * row.exp <= Float32ZeroExp THEN "zero"
    ELSE IF 2 * row.exp + SquaredNormExp(row.dir) >= Float32InfExp THEN "inf"
    ELSE "finite"

\* norms[norms == 0] = 1; X / norms, for one row
normalize_row(row) ==
    IF norm_of(row) = "zero" THEN row
    ELSE IF norm_of(row) = "inf" THEN ZeroRow
    ELSE Row(row.dir, 0, TRUE)

\* lines 72-77 for the whole matrix
normalize_rows(X) == [i \in DOMAIN X |-> normalize_row(X[i])]

\* each row multiplied by its own constant 2^shift[i]
scaled(X, shift) ==
    [i \in DOMAIN X |-> IF X[i].dir = "zero" THEN X[i]
                        ELSE Row(X[i].dir, X[i].exp + shift[i], FALSE)]

MaxRows == 3

\* the exponents of the constants tried: 2^-80, 1, 2 and 2^64
ShiftInputs == {-80, 0, 1, 64}

InitNormalize ==
    /\ evaluate_quality = TRUE
    /\ QualityIdle
    /\ GradeIdle
    /\ NarrativeIdle
    /\ ExtraIdle

\* fit_predict with the cosine metric on vectors, and on the same vectors with
\* each row scaled; HDBSCAN is a function of the matrix it is given
FitPredictScaled ==
    /\ nz_call = "none"
    /\ \E n \in 1..MaxRows :
       \E X \in [1..n -> {Row(d, 0, FALSE) : d \in Directions}] :
       \E shift \in [1..n -> ShiftInputs] :
       \E h1 \in HdbscanGroupedFor(n, NewsClusterer(2, None, "cosine")) :
       \E h2 \in HdbscanGroupedFor(n, NewsClusterer(2, None, "cosine")) :
          /\ normalize_rows(X) = normalize_rows(scaled(X, shift)) => h1 = h2
          /\ nz_call' = "fit_predict"
          /\ nz_rows' = X
          /\ nz_shift' = shift
          /\ nz_normalized' = <<normalize_rows(X), normalize_rows(scaled(X, shift))>>
          /\ nz_labels' = <<h1, h2>>
    /\ UNCHANGED <<qvars, gvars, nvars, pvars, bvars, cvars, svars, ovars, rvars, mvars>>

NextNormalize == FitPredictScaled

SpecNormalize == InitNormalize /\ [][NextNormalize]_vars

-----------------------------------------------------------------------------
(* Claims about NewsClusterer and ClusteringQualityMetrics *)

Grades == {"EXCELLENT", "GOOD", "FAIR", "POOR", "BAD", "ERROR"}

FitReturned == fp_result # None /\ ~fp_result[1].raised
Fit == fp_result[1].value
EvalReturned == ev_result # None /\ ~ev_result[1].raised
Report == ev_result[1].value

\* the arguments of the evaluation agree with each other, as fit_predict passes them
ArgsConsistent ==
    /\ vectors.n = Len(arg_labels)
    /\ arg_n_noise = Cardinality({i \in DOMAIN arg_labels : arg_labels[i] = -1})
    /\ arg_n_clusters = Cardinality({arg_labels[i] : i \in DOMAIN arg_labels} \ {-1})

\* C1: when fit_predict returns for N vectors, labels has N entries, each -1 or a
\* cluster id >= 0, n_noise is the number of -1 labels, n_clusters the number of
\* distinct non-noise labels, and the cluster sizes plus n_noise add up to N.
Thm_C1 ==
    FitReturned =>
        LET labels == Fit.labels
            ids == {labels[i] : i \in DOMAIN labels} \ {-1}
            size == [c \in ids |-> Cardinality({i \in DOMAIN labels : labels[i] = c})]
        IN /\ DOMAIN labels = 1 .. vectors.n
           /\ \A i \in 1 .. vectors.n : labels[i] = -1 \/ labels[i] >= 0
           /\ Fit.n_noise = Cardinality({i \in DOMAIN labels : labels[i] = -1})
           /\ Fit.n_clusters = Cardinality(ids)
           /\ SumSet(size, ids) + Fit.n_noise = vectors.n

\* fit_predict returned a labelling with noise points and at least two clusters
Wit_C1 == FitReturned /\ Fit.n_noise > 0 /\ Fit.n_clusters >= 2

\* C2: evaluate_clustering never raises; whatever the arguments, it returns a
\* report whose quality_grade is one of the six grades.
Thm_C2 ==
    ev_result # None =>
        /\ ~ev_result[1].raised
        /\ "quality_grade" \in DOMAIN Report
        /\ Report.quality_grade \in Grades

\* a direct call with an all-noise labelling and ragged vectors that made
\* np.array raise has returned
Wit_C2 ==
    /\ call = "evaluate_clustering"
    /\ EvalReturned
    /\ arg_labels # <<>>
    /\ \A i \in DOMAIN arg_labels : arg_labels[i] = -1
    /\ np_array = "ValueError"

\* C3: every report evaluate_clustering returns (for arguments that agree with
\* each other) carries an overall_quality_score, and it lies in [0,1].
Cex_C3 ==
    (EvalReturned /\ ArgsConsistent) =>
        /\ "overall_quality_score" \in DOMAIN Report
        /\ Report.overall_quality_score >= 0
        /\ Report.overall_quality_score <= SCALE

\* the part of C3 that the code keeps: a report that carries the score has it in [0,1]
ScoreInRange ==
    (EvalReturned /\ ArgsConsistent /\ "overall_quality_score" \in DOMAIN Report) =>
        /\ Report.overall_quality_score >= 0
        /\ Report.overall_quality_score <= SCALE

\* C4: when an exception leaves the try block of evaluate_clustering, nothing is
\* raised and the report has quality_grade ERROR, overall_quality_score 0.0 and
\* the error recorded.
Cex_C4 ==
    (ev_result # None /\ np_array = "ValueError") =>
        /\ ~ev_result[1].raised
        /\ Report.quality_grade = "ERROR"
        /\ "error" \in DOMAIN Report
        /\ "overall_quality_score" \in DOMAIN Report
        /\ Report.overall_quality_score = 0

\* C5: when every point is noise (n_clusters = 0, n_noise = N) the report's
\* overall score is 0.
Cex_C5 ==
    (/\ EvalReturned
     /\ np_array # "ValueError"
     /\ ArgsConsistent
     /\ arg_n_clusters = 0
     /\ arg_n_noise = Len(arg_labels)) =>
        Report.overall_quality_score = 0

\* the rank of a grade, BAD lowest
GradeRank(g) ==
    CASE g = "BAD" -> 0 [] g = "POOR" -> 1 [] g = "FAIR" -> 2
      [] g = "GOOD" -> 3 [] g = "EXCELLENT" -> 4

\* the grade the cut-offs of the claim give a score
CutOffGrade(x) ==
    IF 10 * x >= 8 * SCALE THEN "EXCELLENT"
    ELSE IF 10 * x >= 7 * SCALE THEN "GOOD"
    ELSE IF 10 * x >= 6 * SCALE THEN "FAIR"
    ELSE IF 10 * x >= 4 * SCALE THEN "POOR"
    ELSE "BAD"

\* C6: the grade is decided by the score alone with inclusive cut-offs 0.8, 0.7,
\* 0.6, 0.4, and of two scores the larger never gets the lower grade.
Thm_C6 ==
    grades # None =>
        /\ grades[1][1] = CutOffGrade(scores[1])
        /\ grades[1][2] = CutOffGrade(scores[2])
        /\ scores[1] <= scores[2] => GradeRank(grades[1][1]) <= GradeRank(grades[1][2])

\* the grades of a score just below the top cut-off and of the cut-off itself
Wit_C6 ==
    /\ grades # None
    /\ scores = <<GradeExcellent - 1, GradeExcellent>>
    /\ grades[1] = <<"GOOD", "EXCELLENT">>

\* C7: the overall score is the weighted sum of the normalised metrics the
\* report carries, divided by the sum of the weights of those metrics only.
Thm_C7 ==
    (EvalReturned /\ "overall_quality_score" \in DOMAIN Report) =>
        LET present == {m \in DOMAIN weights : m \in DOMAIN Report}
            num == SumSet([m \in present |-> normalized(m, Report[m]) * weights[m]], present)
            den == SumSet(weights, present)
        IN /\ den > 0
           /\ Report.overall_quality_score = num \div den

\* a report without the separation score but with the dispersion ratio, and a
\* score above zero
Wit_C7 ==
    /\ EvalReturned
    /\ "overall_quality_score" \in DOMAIN Report
    /\ "silhouette_score" \notin DOMAIN Report
    /\ "calinski_harabasz_score" \in DOMAIN Report
    /\ Report.overall_quality_score > 0

-----------------------------------------------------------------------------
(* Claims about NarrativeBuilder *)

\* build_narratives has returned a list of narratives
NarrativesReturned ==
    nb_call = "build_narratives" /\ nb_result # None /\ ~nb_result[1].raised

\* _build_single_narrative has returned a narrative
NarrativeReturned ==
    nb_call = "_build_single_narrative" /\ nb_result # None /\ ~nb_result[1].raised

\* the narratives the call returned
Narratives ==
    IF NarrativesReturned THEN nb_result[1].value
    ELSE IF NarrativeReturned THEN <<nb_result[1].value>>
    ELSE <<>>

NoNoiseNarrative == \A k \in DOMAIN Narratives : Narratives[k].cluster_id # -1

NonIncreasingSize ==
    \A k \in 1..(Len(Narratives) - 1) : Narratives[k].size >= Narratives[k + 1].size

\* C8 as stated: for any items, labels and top_n, build_narratives returns at
\* most top_n narratives, none for the noise label -1, in non-increasing order
\* of cluster size.
Cex_C8 ==
    NarrativesReturned =>
        Len(Narratives) <= top_n /\ NoNoiseNarrative /\ NonIncreasingSize

\* C8, amended: for any items and labels and any top_n >= 0, build_narratives
\* returns at most top_n narratives, none for the noise label -1, in
\* non-increasing order of cluster size.
Thm_C8 ==
    (NarrativesReturned /\ top_n >= 0) =>
        Len(Narratives) <= top_n /\ NoNoiseNarrative /\ NonIncreasingSize

\* a call with noise among the labels and the smaller cluster first among
\* them, which returned the larger cluster before the smaller one
Wit_C8 ==
    /\ NarrativesReturned
    /\ top_n = 2
    /\ Len(Narratives) = 2
    /\ \E j \in DOMAIN nb_labels : nb_labels[j] = -1
    /\ Narratives[1].size > Narratives[2].size
    /\ \E j \in DOMAIN nb_labels :
          /\ nb_labels[j] = Narratives[2].cluster_id
          /\ \A h \in 1..j : nb_labels[h] # Narratives[1].cluster_id

\* C9: no keyword of a returned narrative is shorter than 3 or longer than 50
\* characters, on the term-weighting path and on the fallback path alike.
Cex_C9 ==
    \A k \in DOMAIN Narratives :
        \A j \in DOMAIN Narratives[k].keywords :
            /\ TermLen(Narratives[k].keywords[j]) >= MinKeywordLen
            /\ TermLen(Narratives[k].keywords[j]) <= MaxKeywordLen

\* the texts of the cluster _build_single_narrative was called on
ClusterTexts ==
    IF truthy(processed_texts)
    THEN [j \in DOMAIN nb_indices |-> processed_texts[1][nb_indices[j] + 1]]
    ELSE [j \in DOMAIN nb_indices |-> news_items[nb_indices[j] + 1].title]

\* every word of the texts is a stopword or has fewer than 3 characters
OnlyStopwordsAndShort(texts) ==
    \A d \in DOMAIN texts : \A j \in DOMAIN texts[d] :
        lower(texts[d][j]) \in extended_stopwords \/ WordLen(texts[d][j]) < MinKeywordLen

\* C10: for a cluster whose texts hold only stopwords and tokens under 3
\* characters, the narrative is produced without raising and its keywords
\* list is empty.
Cex_C10 ==
    (nb_call = "_build_single_narrative" /\ nb_result # None
        /\ OnlyStopwordsAndShort(ClusterTexts)) =>
        /\ ~nb_result[1].raised
        /\ nb_result[1].value.keywords = <<>>

-----------------------------------------------------------------------------
(* Claims about AsyncNewsProcessor *)

\* C11: for every interleaving of worker completions, position i of the list
\* preprocess_texts_async returns holds the preprocessed text of news_items[i].
Cex_C11 ==
    pp_result # None =>
        /\ Len(pp_result[1]) = Len(pp_items)
        /\ \A i \in DOMAIN pp_items :
              pp_result[1][i] = _preprocess_single_item(pp_items[i]).value

\* C12: when a preprocessing unit fails, the parallel results are discarded and
\* the batch is reprocessed; a list holding a placeholder for a failed unit is
\* never returned.
Cex_C12 ==
    pp_result # None =>
        \A k \in DOMAIN pp_result[1] : pp_result[1][k] # EmptyText

\* C13: a failure of the quality evaluation or of the narrative building never
\* keeps the batch from producing its output; when the clustering step has
\* succeeded, run_daily main and process_news_batch_async yield a result.
Cex_C13 ==
    (/\ batch_result # None
     /\ batch_cluster # None
     /\ ~batch_cluster[1].raised) =>
        /\ ~batch_result[1].raised
        /\ batch_result[1].value # None

\* the part of C13 that run_daily main keeps: with the clustering step done,
\* main reaches its report whatever the narrative building did
MainReportsAfterClustering ==
    (/\ batch_call = "main"
     /\ batch_result # None
     /\ batch_cluster # None
     /\ ~batch_cluster[1].raised) =>
        /\ ~batch_result[1].raised
        /\ batch_result[1].value # None

-----------------------------------------------------------------------------
(* Claims about NewsClusterer's parameters *)

ClustererFitCalled == nc_call = "fit_predict"
OptimizeReturned == nc_call = "optimize_parameters" /\ opt_result # None /\ ~opt_result[1].raised
Optimum == opt_result[1].value
AllNoise(labels) == \A i \in DOMAIN labels : labels[i] = -1

FewPointsAllNoise ==
    (ClustererFitCalled /\ hdbscan_called /\ hdbscan_answer # Raise
       /\ nc_vectors.n < nc_self.min_cluster_size)
        => /\ ~nc_result[1].raised
           /\ nc_result[1].value.n_clusters = 0
           /\ nc_result[1].value.n_noise = nc_vectors.n
           /\ AllNoise(nc_result[1].value.labels)

Evaluated == {k \in DOMAIN opt_runs : opt_runs[k].score # None}
ScoreOf(k) == opt_runs[k].score[1]
MaxScore == CHOOSE x \in {ScoreOf(k) : k \in Evaluated} : \A k \in Evaluated : ScoreOf(k) <= x
FirstBest == CHOOSE k \in Evaluated : ScoreOf(k) = MaxScore /\ \A j \in Evaluated : ScoreOf(j) = MaxScore => k <= j

\* C15: the best_score optimize_parameters returns is the greatest
\* overall_quality_score among the combinations that were evaluated, and
\* best_params is the first combination, in the order of the product, with it
Thm_C15 ==
    (OptimizeReturned /\ Evaluated # {})
        => /\ Optimum.best_score = MaxScore
           /\ Optimum.best_params = opt_runs[FirstBest].params

Wit_C15 ==
    /\ OptimizeReturned
    /\ \E j, k \in Evaluated : j < k /\ ScoreOf(j) = MaxScore /\ ScoreOf(k) = MaxScore
                                 /\ opt_runs[j].params # opt_runs[k].params
    /\ \E k \in Evaluated : ScoreOf(k) < MaxScore /\ k < FirstBest

BestBefore(k) == IF k = 1 THEN InitialBest ELSE opt_runs[k - 1].best

\* C16: a combination whose clustering raises is skipped: the later ones are
\* still run, the best found so far stays as it was, and the call returns
Thm_C16 ==
    nc_call = "optimize_parameters"
        => /\ OptimizeReturned
           /\ Len(opt_runs) = Len(range_combinations(parameter_ranges))
           /\ \A k \in DOMAIN opt_runs : opt_runs[k].raised => opt_runs[k].best = BestBefore(k)
           /\ Optimum.best_score = BestBefore(Len(opt_runs) + 1).best_score

Wit_C16 ==
    /\ OptimizeReturned
    /\ \E j, k, l \in DOMAIN opt_runs :
          /\ j < k /\ k < l
          /\ ~opt_runs[j].raised /\ opt_runs[k].raised /\ ~opt_runs[l].raised
          /\ opt_runs[k].best.best_score > 0
          /\ opt_runs[l].best # opt_runs[k].best

\* C17: every combination is clustered with its own value of every parameter
\* named in parameter_ranges
Cex_C17 ==
    OptimizeReturned
        => \A k \in DOMAIN opt_runs : \A name \in DOMAIN opt_runs[k].params :
              /\ name \in DOMAIN opt_runs[k].applied
              /\ opt_runs[k].applied[name] = opt_runs[k].params[name]

\* the part of it that holds: min_cluster_size, min_samples and metric are applied
NamedParametersApplied ==
    OptimizeReturned
        => \A k \in DOMAIN opt_runs :
              \A name \in DOMAIN opt_runs[k].params \cap {"min_cluster_size", "min_samples", "metric"} :
                 opt_runs[k].applied[name] = opt_runs[k].params[name]

-----------------------------------------------------------------------------
(* Claims about the narratives returned *)

\* the items of cluster c, in the order of the input
MembersOf(c) ==
    LET idx == {j \in DOMAIN nb_labels : nb_labels[j] = c}
    IN [h \in 1..Cardinality(idx) |->
           news_items[CHOOSE j \in idx : Cardinality({g \in idx : g <= j}) = h]]

\* the label shown for the source of an item
SourceLabel(item) ==
    IF item.has_source_name /\ item.source_name # None THEN item.source_name[1] ELSE "unknown"

\* the examples of the k-th narrative are the first min(top_titles, size) items
\* of its cluster, in order, each with its title, link and source label
ExamplesAsClaimed(k) ==
    LET mem == MembersOf(Narratives[k].cluster_id)
        ex == Narratives[k].news_examples
    IN /\ Len(ex) = Min2(top_titles, Len(mem))
       /\ \A h \in DOMAIN ex :
             /\ ex[h].title = mem[h].title
             /\ ex[h].link = mem[h].link
             /\ ex[h].source_name = SourceLabel(mem[h])

\* processed_texts, when given, has a text for every item
ProcessedFits == processed_texts = None \/ Len(processed_texts[1]) = Len(news_items)

\* C18: the examples of every narrative are the first min(top_titles, cluster
\* size) items of the cluster in their original order, each with title, link
\* and source label, the placeholder standing for an unknown source; no
\* exception is raised
Cex_C18 ==
    (nb_call = "build_narratives" /\ ProcessedFits)
        => /\ NarrativesReturned
           /\ \A k \in DOMAIN Narratives : ExamplesAsClaimed(k)

\* the part of it that holds: the examples of the narratives that are returned
ExamplesWhenReturned ==
    NarrativesReturned => \A k \in DOMAIN Narratives : ExamplesAsClaimed(k)

IsList(x) == DOMAIN x = 1..Len(x)

\* C19: every narrative returned has the keys theme, keywords and size, its
\* keywords are a list and its size is positive
Cex_C19 ==
    \A k \in DOMAIN Narratives :
        /\ {"theme", "keywords", "size"} \subseteq DOMAIN Narratives[k]
        /\ IsList(Narratives[k].keywords)
        /\ Narratives[k].size > 0

\* the part of it that holds: keywords and size
KeywordsAndSize ==
    \A k \in DOMAIN Narratives :
        /\ {"keywords", "size"} \subseteq DOMAIN Narratives[k]
        /\ IsList(Narratives[k].keywords)
        /\ (NarrativesReturned => Narratives[k].size > 0)


-----------------------------------------------------------------------------
(* Claim about the metric groups of evaluate_clustering *)

ClusterStatsKeys ==
    {"avg_cluster_size", "max_cluster_size", "min_cluster_size", "cluster_size_std",
     "cluster_size_variance", "dominant_cluster_ratio", "size_distribution"}
InternalKeys == {"balance_score", "coverage_score", "compactness_score", "efficiency_score"}
StabilityKeys ==
    {"single_point_clusters", "large_clusters", "small_clusters", "medium_clusters",
     "stability_score"}

\* evaluate_clustering was called directly and np.array(vectors) did not raise
EvaluatedDirectly == call = "evaluate_clustering" /\ np_array # "ValueError"

\* the computation of the internal metrics raised
InternalFailed == internal_metrics_raise(arg_labels, arg_n_clusters)

\* C20: when the computation of one metric group fails, the report is not the
\* ERROR report and still has the metrics of the other groups
Cex_C20 ==
    (EvaluatedDirectly /\ InternalFailed)
        => /\ Report.quality_grade # "ERROR"
           /\ ClusterStatsKeys \subseteq DOMAIN Report
           /\ StabilityKeys \subseteq DOMAIN Report

\* the part of it that holds: whatever the external metrics do, their own
\* failures included, the report has the other groups and is not the ERROR report
ExternalFailureTolerated ==
    (EvaluatedDirectly /\ ~InternalFailed)
        => /\ Report.quality_grade # "ERROR"
           /\ ClusterStatsKeys \cup InternalKeys \cup StabilityKeys \subseteq DOMAIN Report


-----------------------------------------------------------------------------
(* Further claims about ClusteringQualityMetrics *)

ExternalKeys == {"silhouette_score", "calinski_harabasz_score", "davies_bouldin_score"}
NonNoisePoints == {i \in DOMAIN arg_labels : arg_labels[i] # -1}

\* C23: an external metric is in a report only if there are more than 10
\* vectors and 1 < n_clusters < N - n_noise, and then it was computed over the
\* non-noise points: at least two of them, with more than one label among them
Thm_C23 ==
    (EvalReturned /\ ExternalKeys \cap DOMAIN Report # {})
        => /\ vectors.n > ExternalMinSamples
           /\ 1 < arg_n_clusters
           /\ arg_n_clusters < vectors.n - arg_n_noise
           /\ Cardinality(NonNoisePoints) >= 2
           /\ Cardinality({arg_labels[i] : i \in NonNoisePoints}) > 1

\* a report with the three external metrics for labels with noise among them
Wit_C23 ==
    /\ EvalReturned
    /\ ExternalKeys \subseteq DOMAIN Report
    /\ \E i \in DOMAIN arg_labels : arg_labels[i] = -1


\* the clusters of the labelling given to _assess_cluster_stability, their
\* sizes and the number of clustered points
StabClusters == LabelSet(st_labels) \ {-1}
StabSize(c) == CountOf(st_labels, c)
StabClustered == Cardinality({i \in DOMAIN st_labels : st_labels[i] # -1})

Singleton(c) == StabSize(c) = 1
Large(c) == ~Singleton(c) /\ 10 * StabSize(c) > 3 * StabClustered
Small(c) == ~Singleton(c) /\ ~Large(c) /\ StabSize(c) < 5
Medium(c) == ~Singleton(c) /\ ~Large(c) /\ ~Small(c)

\* C24: every non-noise cluster is counted in exactly one class - singleton,
\* else large above 30% of the clustered points, else small below 5, else
\* medium - and stability_score is 1 - (singletons + large) / n_clusters,
\* floored at 0, and 0 when n_clusters is 0
Thm_C24 ==
    st_result # None =>
        LET r == st_result[1]
        IN /\ r.single_point_clusters = Cardinality({c \in StabClusters : Singleton(c)})
           /\ r.large_clusters = Cardinality({c \in StabClusters : Large(c)})
           /\ r.small_clusters = Cardinality({c \in StabClusters : Small(c)})
           /\ r.medium_clusters = Cardinality({c \in StabClusters : Medium(c)})
           /\ r.single_point_clusters + r.large_clusters + r.small_clusters
                 + r.medium_clusters = Cardinality(StabClusters)
           /\ r.stability_score =
                 IF st_n_clusters = 0 THEN 0
                 ELSE Max2(0, SCALE - ((r.single_point_clusters + r.large_clusters) * SCALE)
                                         \div st_n_clusters)

\* a labelling with a cluster of every class, and a score strictly between 0 and 1
Wit_C24 ==
    /\ st_result # None
    /\ st_result[1].single_point_clusters > 0
    /\ st_result[1].large_clusters > 0
    /\ st_result[1].small_clusters > 0
    /\ st_result[1].medium_clusters > 0
    /\ st_result[1].stability_score > 0
    /\ st_result[1].stability_score < SCALE

-----------------------------------------------------------------------------
(* Claim about the order of the keywords *)

\* the keywords kw follow the combined scores downwards, equal scores in the
\* order of the term index (the features are in lexicographic order)
RankedStably(kw, combined) ==
    \A i \in 1..(Len(kw) - 1) :
        \/ combined[kw[i]] > combined[kw[i + 1]]
        \/ combined[kw[i]] = combined[kw[i + 1]] /\ TermLess(kw[i], kw[i + 1])

RankedDownwards(kw, combined) ==
    \A i \in 1..(Len(kw) - 1) : combined[kw[i]] >= combined[kw[i + 1]]

\* the keywords of the returned narrative came from the term weighting
WeightedKeywords ==
    NarrativeReturned /\ tfidf_keywords(ClusterTexts, top_keywords) # Raise

\* C25: the keywords are in descending order of combined score, and of two
\* terms with the same combined score the one with the smaller term index
\* comes first
Cex_C25 ==
    WeightedKeywords =>
        RankedStably(Narratives[1].keywords,
                     combined_scores(ClusterTexts, fit_vocabulary(ClusterTexts)[1]))

\* the part of it that holds: the scores never increase along the keywords
KeywordsScoreDescending ==
    WeightedKeywords =>
        RankedDownwards(Narratives[1].keywords,
                        combined_scores(ClusterTexts, fit_vocabulary(ClusterTexts)[1]))

-----------------------------------------------------------------------------
(* Claim about the effect of the evaluation on what fit_predict returns *)

\* what fit_predict gives for the same vectors and the same answer of HDBSCAN
\* when quality evaluation is on or off (e) and the metric library does lib
SameCall(e, lib) == fit_predict(nc_vectors, e, None, hdbscan_answer, lib).result

\* C26: what fit_predict returns - the tuple, or the exception of the
\* clustering - is the same with quality evaluation disabled or enabled,
\* whatever the evaluation does
Thm_C26 ==
    ClustererFitCalled =>
        \A e \in BOOLEAN :
        \A lib \in LibOutcomes(nc_vectors,
                               IF hdbscan_answer = Raise THEN <<>> ELSE hdbscan_answer[1]) :
            SameCall(e, lib) = nc_result[1]

\* fit_predict returned clusters with evaluation enabled, and in another run
\* with evaluation disabled
Wit_C26 ==
    /\ ClustererFitCalled
    /\ evaluate_quality
    /\ ~nc_result[1].raised
    /\ nc_result[1].value.n_clusters > 0
    /\ nc_result[1].value.n_noise > 0

Wit_C26_disabled ==
    /\ ClustererFitCalled
    /\ ~evaluate_quality
    /\ ~nc_result[1].raised
    /\ nc_result[1].value.n_clusters > 0

-----------------------------------------------------------------------------
(* Claim about the stages of process_news_batch_async *)

AsyncCalled == batch_call = "process_news_batch_async"
Started(stage) == \E i \in DOMAIN batch_stages : batch_stages[i] = stage

\* what each stage gave: texts, vectors, a clustering, narratives
TextsUsable == batch_items # <<>>
VectorsUsable == Started("vectorize") /\ batch_vectors # None
ClusteringUsable == Started("cluster") /\ batch_cluster # None /\ ~batch_cluster[1].raised
NarrativesGiven ==
    Started("narratives") /\ batch_narratives # None /\ ~batch_narratives[1].raised
NarrativesUsable == NarrativesGiven /\ batch_narratives[1].value # <<>>

\* the method returned a result record, not None
ResultRecord == batch_result # None /\ ~batch_result[1].raised /\ batch_result[1].value # None

\* the stages started are an initial part of the four, each one started only
\* after the one before gave a usable result
StagesInOrder ==
    /\ Len(batch_stages) >= 1
    /\ batch_stages = SubSeq(Stages, 1, Len(batch_stages))
    /\ Started("vectorize") <=> TextsUsable
    /\ Started("cluster") <=> VectorsUsable
    /\ Started("narratives") <=> ClusteringUsable

\* C27 as stated: the stages run in order, each after a usable result of the one
\* before; an empty or None result of any stage ends the method with None, and
\* a record is returned only when all four stages gave a usable result
Cex_C27 ==
    AsyncCalled =>
        /\ batch_result # None /\ ~batch_result[1].raised
        /\ StagesInOrder
        /\ ResultRecord <=> NarrativesUsable

\* C27, amended: the stages run in order, each after a usable result of the one
\* before; an empty or None result of one of the first three stages, or None
\* from the narratives stage, ends the method with None; a record is returned
\* exactly when the narratives stage returned a list, which may be empty
Thm_C27 ==
    AsyncCalled =>
        /\ batch_result # None /\ ~batch_result[1].raised
        /\ StagesInOrder
        /\ ResultRecord <=> NarrativesGiven

\* a batch whose items all ended as noise: four stages, no narratives, a record
Wit_C27 ==
    /\ AsyncCalled
    /\ batch_stages = Stages
    /\ NarrativesGiven
    /\ batch_narratives[1].value = <<>>
    /\ ResultRecord

-----------------------------------------------------------------------------
(* Claim about davies_bouldin_score and the overall score *)

\* C28: two metric maps that differ only in davies_bouldin_score, present or
\* absent, have the same overall_quality_score and the same grade
Thm_C28 ==
    os_result # None =>
        /\ os_result[1][1].score = os_result[1][2].score
        /\ os_result[1][1].grade = os_result[1][2].grade

\* a map with the best Davies-Bouldin value and the same map without one, with
\* a score that is neither 0 nor 1
Wit_C28 ==
    /\ os_result # None
    /\ os_davies = <<Some(0), None>>
    /\ "silhouette_score" \in DOMAIN os_metrics
    /\ os_result[1][1].score > 0
    /\ os_result[1][1].score < SCALE

-----------------------------------------------------------------------------
(* Claim about the cosine normalisation *)

ScaledCalled == nz_call = "fit_predict"

\* every scaled row that is not zero has a norm float32 can hold
ScaledInRange ==
    \A i \in DOMAIN nz_rows : norm_of(scaled(nz_rows, nz_shift)[i]) # "inf"
                              /\ (nz_rows[i].dir # "zero"
                                    => norm_of(scaled(nz_rows, nz_shift)[i]) # "zero")

ScaleInvariantInRange ==
    ScaledCalled =>
        /\ ScaledInRange => /\ nz_normalized[1] = nz_normalized[2]
                            /\ nz_labels[1] = nz_labels[2]
        /\ \A i \in DOMAIN nz_rows :
              nz_rows[i].dir = "zero" => /\ nz_normalized[1][i] = nz_rows[i]
                                         /\ nz_normalized[2][i] = nz_rows[i]

-----------------------------------------------------------------------------
(* Claims about RedisCache *)

PingFailed == rc_ping \in PingOutcomes \ {"ok"}

\* C22: if the ping fails while a RedisCache is being constructed, the
\* construction completes without raising and client is None
Cex_C22 == PingFailed => rc_client = None

\* the part of it that holds: a ping that raises redis.ConnectionError leaves
\* a constructed cache whose client is None
ConnectionErrorTolerated == rc_ping = "ConnectionError" => rc_client = None

GetReturned == rc_calls > 0 /\ rc_call.op = "get" /\ rc_call.result # None

\* C29: get_vectorized_texts(texts) returns a value only if that value was
\* stored by set_vectorized_texts for exactly the same list of texts
Cex_C29 ==
    GetReturned => <<rc_call.texts, rc_call.result[1]>> \in rc_sets

\* what holds instead: the value was stored for a list whose texts joined by
\* "|" read the same
StoredForSameJoinedTexts ==
    GetReturned =>
        \E s \in rc_sets : /\ join(s[1]) = join(rc_call.texts)
                           /\ s[2] = rc_call.result[1]

-----------------------------------------------------------------------------
(* Claim about main of run_daily.py *)

\* C30: once db.connect() has succeeded, db.disconnect() is eventually called,
\* however main is left
Thm_C30 == db_connected ~> (db_disconnects > 0)

\* main never ends with a connection it made and did not disconnect
DisconnectedAtExit == (main_pc = "exited" /\ db_connected) => db_disconnects > 0

\* main was left by the sys.exit of the failed connection test, after the
\* disconnect
Wit_C30 ==
    /\ main_pc = "exited"
    /\ db_connected
    /\ main_pending = "SystemExit"
    /\ main_exit = "SystemExit"
    /\ db_disconnects = 1

=============================================================================
